---------------------------- MODULE Spec2Model ----------------------------
(***************************************************************************)
(* Verification model of the cigar_pricing_rating scrapers.                *)
(*                                                                         *)
(* Part 1 (specification Spec): the paginate-then-fetch-detail traversal   *)
(* loops of the nine scraper scripts, one state machine whose branches     *)
(* follow the control flow of the script named by `src`.  The web site and *)
(* the SQL sink are the environment: each listing fetch, detail fetch and  *)
(* insert draws its outcome nondeterministically.                          *)
(*                                                                         *)
(* Part 2 (specification SpecParse): the pure size parsers, applied to     *)
(* texts drawn from a bounded set of character sequences.                  *)
(*                                                                         *)
(* Part 3: the other field extractors and helpers, each under its own      *)
(* specification over bounded inputs: SpecPrice, SpecWrapper, SpecQty,     *)
(* SpecReconcile, SpecCoerce, SpecNotes, SpecSave, SpecLength, SpecDetails *)
(* and SpecSheets; the per-variant loop of cigarsdirect (SpecVariants) and *)
(* the paging loops against a finite site (SpecPaging).                    *)
(***************************************************************************)
EXTENDS Integers, Sequences, FiniteSets, TLC

VARIABLES
    src,            \* which scraper script is running
    pc,             \* position of the script: listing, item, detail, save, ended, done, crashed
    cat,            \* index of the STRENGTH_URLS entry being traversed
    page,           \* page / page_num / (start / page_size + 1)
    cards,          \* items of the listing being iterated (product_cards, listing_records, all_items)
    idx,            \* position of the for loop in cards
    nextLink,       \* next_page_url of the current listing page is set
    rec,            \* the record being assembled for cards[idx]
    listed,         \* history: what each successful listing fetch of this traversal returned
    emitted,        \* history: records passed to save_record_to_sql in this traversal
    stored,         \* history: ids of the records the insert committed in this traversal
    log,            \* history: failure lines logged / printed in this traversal
    detailFailed,   \* environment: ids whose detail fetch raised
    sinkFailed,     \* environment: ids whose insert raised
    inflight,       \* ids whose processing has begun and is neither emitted nor skipped
    total_inserted, \* total_inserted / total_records of the current traversal
    grand_total,    \* grand_total of run_scraper
    finished,       \* categories whose traversal returned to the runner
    faults,         \* number of failures the environment has injected so far
    fetches,        \* number of listing requests the run has made so far
    exc,            \* category of the exception that left the script unhandled
    text,           \* parser input (SpecParse), a sequence of characters
    given,          \* what the input was built from (SpecParse)
    fn,             \* parser applied last (SpecParse)
    out             \* parser result (SpecParse)

travVars == <<src, pc, cat, page, cards, idx, nextLink, rec, listed, emitted, stored,
              log, detailFailed, sinkFailed, inflight, total_inserted, grand_total,
              finished, faults, fetches, exc>>
parseVars == <<text, given, fn, out>>
vars == <<travVars, parseVars>>

---------------------------------------------------------------------------
(* Bounds of the model *)

MaxFetch == 3
MaxItems == 2
MaxFaults == 2
NumCats == 2

---------------------------------------------------------------------------
(* The scripts and the shape of their traversal code *)

Sources == {"atlantic", "holts", "gotham", "famous", "cigarbid",
            "aficionado", "cigarsdirect", "jrcigars", "cigars_daily"}

\* while True with page += 1, left by `break` on an empty listing
PagesByNumber(s) == s \in {"atlantic", "aficionado", "cigarsdirect", "gotham"}

\* while page_url: ... page_url = next_page_url
PagesByNextLink(s) == s \in {"famous", "cigarbid"}

\* all listing pages are collected into all_items before any detail fetch
CollectsFirst(s) == s = "jrcigars"

\* run_scraper iterates scrape_strength_category / scrape_strength over STRENGTH_URLS
MultiCategory(s) == s \in {"atlantic", "holts", "gotham"}

\* the listing fetch sits inside try/except (break, or return [])
ListingFetchGuarded(s) == s \in {"gotham", "cigarsdirect", "jrcigars"}

\* the listing extractor drops cards without a link, or always builds a url
ItemsAlwaysHaveUrl(s) == s \in {"famous", "cigarbid", "cigarsdirect"}

\* what the item loop does with a card that has no url
MissingUrl(s) ==
    CASE s \in {"atlantic", "cigars_daily"} -> "raise"   \* exception caught by the card's try
      [] s = "holts" -> "emit"                          \* record with url None is saved
      [] OTHER -> "skip"                                \* continue

\* the record is built straight from the listing (no detail page)
HasDetailStage(s) == s # "cigarsdirect"

\* what happens when the detail fetch raises
DetailFailure(s) ==
    CASE s \in {"atlantic", "holts", "jrcigars"} -> "empty"  \* logged, all-None detail returned
      [] s = "gotham" -> "skip"                              \* logged, parse_pdp returns None
      [] OTHER -> "raise"                                    \* caught by the item's except

\* save_record_to_sql has no try/except of its own
SinkRaises(s) == s \in {"famous", "aficionado"}

\* the loop counts total_inserted / total_records after save_record_to_sql
CountsInserted(s) == s \in {"atlantic", "holts", "gotham", "cigarsdirect"}

\* page_size of the collecting loop: a listing shorter than a full page ends it
page_size == MaxItems

NoRec == [id |-> <<0, 0>>, url |-> FALSE, detail |-> FALSE]

LogLine(kind, ref) == [kind |-> kind, ref |-> ref]

\* the items of listing page p: n cards, those at the positions in `missing` without url
PageItems(p, n, missing) ==
    [i \in 1..n |-> [id |-> <<p, i>>, url |-> (i \notin missing)]]

---------------------------------------------------------------------------
(* Texts are sequences of one-character strings.  Numbers are kept in        *)
(* thousandths, so that 5.125 is 5125 and the integer 52 is 52000; a parsed  *)
(* value is None, a number, or one of the float specials.                    *)

Times == "U+00D7"      \* the multiplication sign, one character

Digits == {"0", "1", "2", "3", "4", "5", "6", "7", "8", "9"}

DigitVal(c) ==
    CASE c = "0" -> 0 [] c = "1" -> 1 [] c = "2" -> 2 [] c = "3" -> 3 [] c = "4" -> 4
      [] c = "5" -> 5 [] c = "6" -> 6 [] c = "7" -> 7 [] c = "8" -> 8 [] c = "9" -> 9

None == [kind |-> "none", val |-> 0]
Num(v) == [kind |-> "num", val |-> v]
NaN == [kind |-> "nan", val |-> 0]
Inf(sign) == [kind |-> "inf", val |-> sign]

IsDigit(c) == c \in Digits
AllDigits(s) == \A k \in DOMAIN s : IsDigit(s[k])

\* str.strip(chars): drop the leading and trailing characters that are in `chars`
RECURSIVE LStripChars(_, _)
LStripChars(s, chars) ==
    IF s # <<>> /\ Head(s) \in chars THEN LStripChars(Tail(s), chars) ELSE s

RECURSIVE RStripChars(_, _)
RStripChars(s, chars) ==
    IF s # <<>> /\ s[Len(s)] \in chars
    THEN RStripChars(SubSeq(s, 1, Len(s) - 1), chars) ELSE s

StripChars(s, chars) == RStripChars(LStripChars(s, chars), chars)

\* str.strip()
Strip(s) == StripChars(s, {" "})

\* str.replace(c, ""): every occurrence of the character removed
Remove(s, c) == SelectSeq(s, LAMBDA ch : ch # c)

\* c in s
Contains(s, c) == \E k \in DOMAIN s : s[k] = c

\* s.find(c) + 1: the first position of c, 0 when there is none
IndexOf(s, c) ==
    IF Contains(s, c) THEN CHOOSE k \in DOMAIN s : s[k] = c /\ \A j \in 1..(k - 1) : s[j] # c
    ELSE 0

\* str.split(c, 1)
SplitOnce(s, c) ==
    LET k == IndexOf(s, c) IN
    IF k = 0 THEN <<s>> ELSE <<SubSeq(s, 1, k - 1), SubSeq(s, k + 1, Len(s))>>

\* str.split(): the maximal runs of non-space characters
RECURSIVE SplitWs(_)
SplitWs(s) ==
    LET t == LStripChars(s, {" "}) IN
    IF t = <<>> THEN <<>>
    ELSE LET k == IndexOf(t, " ")
             word == IF k = 0 THEN t ELSE SubSeq(t, 1, k - 1)
             rest == IF k = 0 THEN <<>> ELSE SubSeq(t, k + 1, Len(t))
         IN <<word>> \o SplitWs(rest)

\* the value of a run of digits
RECURSIVE DigitsVal(_)
DigitsVal(s) ==
    IF s = <<>> THEN 0 ELSE 10 * DigitsVal(SubSeq(s, 1, Len(s) - 1)) + DigitVal(s[Len(s)])

\* the first three decimals of a run of digits after the point, as thousandths
Thousandths(s) ==
    LET d(k) == IF k <= Len(s) THEN DigitVal(s[k]) ELSE 0
    IN 100 * d(1) + 10 * d(2) + d(3)

UpperCase ==
    <<"A", "B", "C", "D", "E", "F", "G", "H", "I", "J", "K", "L", "M",
      "N", "O", "P", "Q", "R", "S", "T", "U", "V", "W", "X", "Y", "Z">>

LowerCase ==
    <<"a", "b", "c", "d", "e", "f", "g", "h", "i", "j", "k", "l", "m",
      "n", "o", "p", "q", "r", "s", "t", "u", "v", "w", "x", "y", "z">>

\* str.lower() and str.upper() on one character
Lower(c) ==
    IF \E k \in DOMAIN UpperCase : UpperCase[k] = c
    THEN LowerCase[CHOOSE k \in DOMAIN UpperCase : UpperCase[k] = c] ELSE c

Upper(c) ==
    IF \E k \in DOMAIN LowerCase : LowerCase[k] = c
    THEN UpperCase[CHOOSE k \in DOMAIN LowerCase : LowerCase[k] = c] ELSE c

IsLetter(c) == Lower(c) # c \/ Upper(c) # c

LowerAll(s) == [k \in DOMAIN s |-> Lower(s[k])]

\* the sign of a numeric literal and what follows it
SignOf(s) == IF s # <<>> /\ Head(s) = "-" THEN -1 ELSE 1
Unsigned(s) == IF s # <<>> /\ Head(s) \in {"-", "+"} THEN Tail(s) ELSE s

\* float(text): surrounding whitespace and a sign are accepted; digits with at most one
\* point and at least one digit; nan, inf and infinity in any case.  Anything else
\* raises ValueError, given here as None.  (Exponents and digit-group underscores do
\* not occur in the texts of this model.)
FloatOf(s) ==
    LET t == Strip(s)
        body == Unsigned(t)
        low == LowerAll(body)
        k == IndexOf(body, ".")
        ip == IF k = 0 THEN body ELSE SubSeq(body, 1, k - 1)
        fp == IF k = 0 THEN <<>> ELSE SubSeq(body, k + 1, Len(body))
    IN IF low = <<"n", "a", "n">> THEN NaN
       ELSE IF low \in {<<"i", "n", "f">>, <<"i", "n", "f", "i", "n", "i", "t", "y">>}
       THEN Inf(SignOf(t))
       ELSE IF AllDigits(ip) /\ AllDigits(fp) /\ Len(ip) + Len(fp) > 0
       THEN Num(SignOf(t) * (1000 * DigitsVal(ip) + Thousandths(fp)))
       ELSE None

\* int(text): surrounding whitespace and a sign are accepted; digits only
IntOf(s) ==
    LET t == Strip(s)
        body == Unsigned(t)
    IN IF body # <<>> /\ AllDigits(body) THEN Num(SignOf(t) * 1000 * DigitsVal(body))
       ELSE None

---------------------------------------------------------------------------
(* The size parsers.  Each returns the pair <<length, ring gauge>>.           *)

\* famous_smoke_scraper.safe_decimal / safe_int, cigarbid and cigars_daily alike
safe_decimal(value) == FloatOf(value)
safe_int(value) == IntOf(value)

\* atlantic_cigar_scraper.safe_float
safe_float(v) == FloatOf(v)

\* frac_map.get(frac, 0.0) of famous_smoke_scraper.parse_size
frac_map(frac) ==
    CASE frac = <<"1", "/", "4">> -> 250
      [] frac = <<"1", "/", "2">> -> 500
      [] frac = <<"3", "/", "4">> -> 750
      [] OTHER -> 0

\* to_float_length of famous_smoke_scraper.parse_size
to_float_length(part) ==
    LET parts == SplitWs(part) IN
    IF Len(parts) = 1 THEN safe_decimal(parts[1])
    ELSE IF Len(parts) = 2
    THEN LET base == safe_decimal(parts[1])
         IN  IF base.kind = "num" THEN Num(base.val + frac_map(parts[2]))
             ELSE IF base.kind = "none" THEN Num(frac_map(parts[2]))
             ELSE base
    ELSE None

\* famous_smoke_scraper.parse_size
famous_parse_size(size_text) ==
    IF size_text = <<>> \/ ~Contains(size_text, "x") THEN <<None, None>>
    ELSE LET halves == SplitOnce(Strip(size_text), "x")
             length_part == Strip(halves[1])
             ring_part == Strip(halves[2])
         IN <<to_float_length(length_part), safe_int(ring_part)>>

\* the position after the run of characters of `class` that starts at i
RECURSIVE Span(_, _, _)
Span(s, i, class) ==
    IF i <= Len(s) /\ s[i] \in class THEN Span(s, i + 1, class) ELSE i

\* \d+(\.\d+)? matched at i: the position after the match, 0 when there is none
NumberEnd(s, i) ==
    LET j == Span(s, i, Digits) IN
    IF j = i THEN 0
    ELSE IF j + 1 <= Len(s) /\ s[j] = "." /\ IsDigit(s[j + 1]) THEN Span(s, j + 1, Digits)
    ELSE j

NoMatch == [ok |-> FALSE, g1 |-> <<>>, g2 |-> <<>>]

\* (\d+(\.\d+)?)\s*[xX]\s*(\d+(\.\d+)?) matched at position i
AtlanticMatchAt(s, i) ==
    LET a == NumberEnd(s, i)
        b == Span(s, a, {" "})
        c == Span(s, b + 1, {" "})
        d == NumberEnd(s, c)
    IN IF a # 0 /\ b <= Len(s) /\ s[b] \in {"x", "X"} /\ d # 0
       THEN [ok |-> TRUE, g1 |-> SubSeq(s, i, a - 1), g2 |-> SubSeq(s, c, d - 1)]
       ELSE NoMatch

\* \(([\d\.]+)\s*[x×]\s*(\d+)\) matched at position i
DailyMatchAt(s, i) ==
    LET a == Span(s, i + 1, Digits \cup {"."})
        b == Span(s, a, {" "})
        c == Span(s, b + 1, {" "})
        d == Span(s, c, Digits)
    IN IF /\ s[i] = "(" /\ a > i + 1
          /\ b <= Len(s) /\ s[b] \in {"x", Times}
          /\ d > c /\ d <= Len(s) /\ s[d] = ")"
       THEN [ok |-> TRUE, g1 |-> SubSeq(s, i + 1, a - 1), g2 |-> SubSeq(s, c, d - 1)]
       ELSE NoMatch

\* re.search: the match at the leftmost position that has one
AtlanticSearch(s) ==
    LET hits == {i \in DOMAIN s : AtlanticMatchAt(s, i).ok} IN
    IF hits = {} THEN NoMatch
    ELSE AtlanticMatchAt(s, CHOOSE i \in hits : \A j \in hits : i <= j)

DailySearch(s) ==
    LET hits == {i \in DOMAIN s : DailyMatchAt(s, i).ok} IN
    IF hits = {} THEN NoMatch
    ELSE DailyMatchAt(s, CHOOSE i \in hits : \A j \in hits : i <= j)

\* atlantic_cigar_scraper.parse_size
atlantic_parse_size(size_text) ==
    LET m == AtlanticSearch(size_text) IN
    IF size_text = <<>> \/ ~m.ok THEN <<None, None>>
    ELSE <<safe_float(m.g1), safe_float(m.g2)>>

\* cigarbid_scraper.parse_dimensions
parse_dimensions(dim_text) ==
    LET cleaned == Remove(Remove(StripChars(dim_text, {"(", ")"}), "\""), " ")
        halves == SplitOnce(cleaned, "x")
    IN IF dim_text = <<>> \/ ~Contains(cleaned, "x") THEN <<None, None>>
       ELSE <<safe_decimal(halves[1]), safe_int(halves[2])>>

\* cigars_daily_scraper.parse_size_from_name
parse_size_from_name(name) ==
    LET match == DailySearch(name) IN
    IF ~match.ok THEN <<None, None>>
    ELSE <<safe_decimal(match.g1), safe_int(match.g2)>>

---------------------------------------------------------------------------
(* The texts the parsers are given: a length, an optional fraction, a        *)
(* separator and a ring gauge, bare or wrapped as the sites print them, and  *)
(* a few texts that are no size at all.                                      *)

Wholes == {<<"5">>, <<"6">>, <<"5", ".", "5">>}

NoFraction == <<>>

KnownFractions ==
    {<<"1", "/", "8">>, <<"1", "/", "4">>, <<"3", "/", "8">>, <<"1", "/", "2">>,
     <<"5", "/", "8">>, <<"3", "/", "4">>, <<"7", "/", "8">>}

Fractions == KnownFractions \cup {NoFraction, <<"1", "/", "3">>}

\* the decimal value of a fraction, in thousandths
FractionValue(frac) ==
    CASE frac = <<"1", "/", "8">> -> 125
      [] frac = <<"1", "/", "4">> -> 250
      [] frac = <<"3", "/", "8">> -> 375
      [] frac = <<"1", "/", "2">> -> 500
      [] frac = <<"5", "/", "8">> -> 625
      [] frac = <<"3", "/", "4">> -> 750
      [] frac = <<"7", "/", "8">> -> 875
      [] OTHER -> 0

Separators ==
    {<<"x">>, <<" ", "x", " ">>, <<"X">>, <<" ", "X", " ">>, <<Times>>, <<" ", Times, " ">>}

\* the letter of a separator, whatever its spacing
Letter(sep) == CHOOSE c \in {"x", "X", Times} : Contains(sep, c)

Rings == {<<"5", "2">>, <<"5", "4">>}

Wraps == {"bare", "shape", "name", "quoted"}

Core(g) ==
    g.whole \o (IF g.frac = NoFraction THEN <<>> ELSE <<" ">> \o g.frac) \o g.sep \o g.ring

\* '5 1/8 x 52', '5 1/8 x 52 (Toro)', 'Toro (5.5x54)', '(4.0"x52)'
TextOf(g) ==
    CASE g.wrap = "bare" -> Core(g)
      [] g.wrap = "shape" -> Core(g) \o <<" ", "(", "T", "o", "r", "o", ")">>
      [] g.wrap = "name" -> <<"T", "o", "r", "o", " ", "(">> \o Core(g) \o <<")">>
      [] g.wrap = "quoted" ->
            <<"(">> \o g.whole \o (IF g.frac = NoFraction THEN <<>> ELSE <<" ">> \o g.frac)
                    \o <<"\"">> \o g.sep \o g.ring \o <<")">>

SizeInputs ==
    [form : {"size"}, whole : Wholes, frac : Fractions, sep : Separators,
     ring : Rings, wrap : Wraps]

OtherTexts ==
    {<<>>, <<"N", "/", "A">>, <<"x">>, <<"6", " ", "x">>, <<"x", " ", "5", "2">>,
     <<"a", "b", "c", " ", "x", " ", "5", "2">>,
     <<"B", "o", "x", " ", "5", " ", "x", " ", "5", "0">>}

---------------------------------------------------------------------------
(* Initial state: the script has connected and is about to fetch page 1 *)

TravIdle ==
    /\ cat = 1 /\ page = 1 /\ cards = <<>> /\ idx = 0 /\ nextLink = FALSE
    /\ rec = NoRec /\ listed = <<>> /\ emitted = <<>> /\ stored = <<>> /\ log = <<>>
    /\ detailFailed = {} /\ sinkFailed = {} /\ inflight = {}
    /\ total_inserted = 0 /\ grand_total = 0 /\ finished = <<>>
    /\ faults = 0 /\ fetches = 0 /\ exc = "none"

NotGiven == [form |-> "none", whole |-> <<>>, frac |-> <<>>, sep |-> <<>>, ring |-> <<>>, wrap |-> "none"]

ParseIdle == text = <<>> /\ given = NotGiven /\ fn = "none" /\ out = <<None, None>>

Init ==
    /\ src \in Sources
    /\ pc = "listing"
    /\ TravIdle
    /\ ParseIdle


---------------------------------------------------------------------------
(* The traversal loop *)

\* end of the for-loop body: next card, else next page, else leave the loop
AdvanceItem ==
    IF idx < Len(cards)
    THEN /\ idx' = idx + 1
         /\ pc' = "item"
         /\ page' = page
    ELSE /\ idx' = idx
         /\ IF PagesByNumber(src) \/ (PagesByNextLink(src) /\ nextLink)
            THEN page' = page + 1 /\ pc' = "listing"
            ELSE page' = page /\ pc' = "ended"

\* the collecting loop has been left: iterate all_items, if any
StartDetailLoop(all_items) ==
    /\ cards' = all_items
    /\ page' = page
    /\ IF all_items = <<>>
       THEN idx' = 0 /\ pc' = "ended"
       ELSE idx' = 1 /\ pc' = "item"

\* the listing request (or its decoding) raises
ListingFetchFails ==
    /\ pc = "listing"
    /\ fetches < MaxFetch
    /\ fetches' = fetches + 1
    /\ faults < MaxFaults
    /\ faults' = faults + 1
    /\ IF ListingFetchGuarded(src)
       THEN /\ log' = Append(log, LogLine("listing", <<page, 0>>))
            /\ exc' = exc
            /\ IF CollectsFirst(src)
               THEN StartDetailLoop(cards)
               ELSE pc' = "ended" /\ UNCHANGED <<cards, idx, page>>
       ELSE /\ pc' = "crashed"
            /\ exc' = "listing"
            /\ UNCHANGED <<log, cards, idx, page>>
    /\ UNCHANGED <<src, cat, nextLink, rec, listed, emitted, stored, detailFailed,
                   sinkFailed, inflight, total_inserted, grand_total, finished>>
    /\ UNCHANGED parseVars

\* parse_rating indexes text.split()[0] of an empty review text, outside any try
ListingParseRaises ==
    /\ pc = "listing"
    /\ fetches < MaxFetch
    /\ fetches' = fetches + 1
    /\ src = "famous"
    /\ faults < MaxFaults
    /\ faults' = faults + 1
    /\ pc' = "crashed"
    /\ exc' = "parse"
    /\ UNCHANGED <<src, cat, page, cards, idx, nextLink, rec, listed, emitted, stored, log,
                   detailFailed, sinkFailed, inflight, total_inserted, grand_total, finished>>
    /\ UNCHANGED parseVars

\* a loop whose break on an empty listing is missing
EmptyListingNeverEndsLoop(s, next) == FALSE

\* an empty listing leaves the loop: `if not product_cards: break`, or, where the
\* loop runs `while page_url`, only when the page has no next-page link
EmptyListingEndsLoop(s, next) == ~(PagesByNextLink(s) /\ next)

\* the listing fetch returns n items, some without url, and maybe a next-page link
ListingReturns ==
    /\ pc = "listing"
    /\ fetches < MaxFetch
    /\ fetches' = fetches + 1
    /\ \E n \in 0..MaxItems, next \in BOOLEAN, missing \in SUBSET (1..MaxItems) :
         /\ missing \subseteq 1..n
         /\ ItemsAlwaysHaveUrl(src) => missing = {}
         /\ faults + Cardinality(missing) <= MaxFaults
         /\ next => PagesByNextLink(src)
         /\ faults' = faults + Cardinality(missing)
         /\ listed' = Append(listed, [n |-> n, next |-> next, missing |-> missing])
         /\ nextLink' = next
         /\ LET items == PageItems(page, n, missing) IN
            IF CollectsFirst(src)
            THEN IF n = 0 \/ n < page_size
                 THEN StartDetailLoop(cards \o items)
                 ELSE /\ cards' = cards \o items
                      /\ page' = page + 1
                      /\ pc' = "listing"
                      /\ idx' = idx
            ELSE IF n = 0
                 THEN /\ cards' = <<>>
                      /\ idx' = 0
                      /\ IF EmptyListingEndsLoop(src, next)
                         THEN page' = page /\ pc' = "ended"
                         ELSE page' = page + 1 /\ pc' = "listing"
                 ELSE /\ cards' = items
                      /\ idx' = 1
                      /\ pc' = "item"
                      /\ page' = page
    /\ UNCHANGED <<src, cat, rec, emitted, stored, log, detailFailed, sinkFailed,
                   inflight, total_inserted, grand_total, finished, exc>>
    /\ UNCHANGED parseVars

\* top of the for-loop body: read the card, then start the detail fetch
BeginItem ==
    /\ pc = "item"
    /\ LET it == cards[idx] IN
       IF ~it.url /\ MissingUrl(src) = "raise"
       THEN /\ log' = Append(log, LogLine("card", it.id))
            /\ AdvanceItem
            /\ UNCHANGED <<rec, inflight>>
       ELSE IF ~it.url /\ MissingUrl(src) = "skip"
       THEN /\ AdvanceItem
            /\ UNCHANGED <<rec, inflight, log>>
       ELSE IF ~it.url \/ ~HasDetailStage(src)
       THEN /\ rec' = [id |-> it.id, url |-> it.url, detail |-> FALSE]
            /\ inflight' = inflight \cup {it.id}
            /\ pc' = "save"
            /\ UNCHANGED <<idx, page, log>>
       ELSE /\ rec' = [id |-> it.id, url |-> it.url, detail |-> FALSE]
            /\ inflight' = inflight \cup {it.id}
            /\ pc' = "detail"
            /\ UNCHANGED <<idx, page, log>>
    /\ UNCHANGED <<src, cat, cards, nextLink, listed, emitted, stored, detailFailed,
                   sinkFailed, total_inserted, grand_total, finished, faults, exc>>
    /\ UNCHANGED fetches
    /\ UNCHANGED parseVars

\* a loop that hands the record to a writer and goes on before it has been emitted
DetailOkDeferredSave ==
    /\ pc = "detail"
    /\ rec' = NoRec
    /\ AdvanceItem
    /\ UNCHANGED <<src, cat, cards, nextLink, listed, emitted, stored, log,
                   detailFailed, sinkFailed, inflight, total_inserted, grand_total,
                   finished, faults, exc>>
    /\ UNCHANGED fetches
    /\ UNCHANGED parseVars

\* the detail page arrives and is parsed
DetailOk ==
    /\ pc = "detail"
    /\ rec' = [rec EXCEPT !.detail = TRUE]
    /\ pc' = "save"
    /\ UNCHANGED <<src, cat, page, cards, idx, nextLink, listed, emitted, stored, log,
                   detailFailed, sinkFailed, inflight, total_inserted, grand_total,
                   finished, faults, exc>>
    /\ UNCHANGED fetches
    /\ UNCHANGED parseVars

\* the detail fetch raises
DetailFetchFails ==
    /\ pc = "detail"
    /\ faults < MaxFaults
    /\ faults' = faults + 1
    /\ detailFailed' = detailFailed \cup {rec.id}
    /\ log' = Append(log, LogLine("detail", rec.id))
    /\ IF DetailFailure(src) = "empty"
       THEN /\ pc' = "save"
            /\ UNCHANGED <<rec, inflight, idx, page>>
       ELSE /\ rec' = NoRec
            /\ inflight' = inflight \ {rec.id}
            /\ AdvanceItem
    /\ UNCHANGED <<src, cat, cards, nextLink, listed, emitted, stored, sinkFailed,
                   total_inserted, grand_total, finished, exc>>
    /\ UNCHANGED fetches
    /\ UNCHANGED parseVars

\* save_record_to_sql(conn, record): the insert commits
SaveOk ==
    /\ pc = "save"
    /\ emitted' = Append(emitted, rec)
    /\ stored' = Append(stored, rec.id)
    /\ total_inserted' = IF CountsInserted(src) THEN total_inserted + 1 ELSE total_inserted
    /\ inflight' = inflight \ {rec.id}
    /\ rec' = NoRec
    /\ AdvanceItem
    /\ UNCHANGED <<src, cat, cards, nextLink, listed, log, detailFailed, sinkFailed,
                   grand_total, finished, faults, exc>>
    /\ UNCHANGED fetches
    /\ UNCHANGED parseVars

\* a handler that leaves the record in place, so that the insert is attempted again
AfterSinkFailureRetry == UNCHANGED <<rec, inflight, idx, page, pc>>

\* the except clause has logged the failure: the loop body is over for this record
AfterSinkFailure ==
    /\ inflight' = inflight \ {rec.id}
    /\ rec' = NoRec
    /\ AdvanceItem

\* save_record_to_sql(conn, record): cursor.execute or conn.commit raises
SaveFails ==
    /\ pc = "save"
    /\ faults < MaxFaults
    /\ faults' = faults + 1
    /\ emitted' = Append(emitted, rec)
    /\ sinkFailed' = sinkFailed \cup {rec.id}
    /\ log' = Append(log, LogLine("sink", rec.id))
    /\ total_inserted' = IF CountsInserted(src) /\ ~SinkRaises(src)
                         THEN total_inserted + 1 ELSE total_inserted
    /\ AfterSinkFailure
    /\ UNCHANGED <<src, cat, cards, nextLink, listed, stored, detailFailed,
                   grand_total, finished, exc>>
    /\ UNCHANGED fetches
    /\ UNCHANGED parseVars

\* the traversal returns; the runner starts the next category or closes the connection
Return ==
    /\ pc = "ended"
    /\ finished' = Append(finished, cat)
    /\ grand_total' = grand_total + total_inserted
    /\ IF MultiCategory(src) /\ cat < NumCats
       THEN /\ cat' = cat + 1
            /\ pc' = "listing"
            /\ page' = 1
            /\ cards' = <<>>
            /\ idx' = 0
            /\ nextLink' = FALSE
            /\ listed' = <<>>
            /\ emitted' = <<>>
            /\ stored' = <<>>
            /\ log' = <<>>
            /\ detailFailed' = {}
            /\ sinkFailed' = {}
            /\ total_inserted' = 0
       ELSE /\ pc' = "done"
            /\ UNCHANGED <<cat, page, cards, idx, nextLink, listed, emitted, stored, log,
                           detailFailed, sinkFailed, total_inserted>>
    /\ UNCHANGED <<src, rec, inflight, faults, exc>>
    /\ UNCHANGED fetches
    /\ UNCHANGED parseVars

Next ==
    \/ ListingFetchFails
    \/ ListingParseRaises
    \/ ListingReturns
    \/ BeginItem
    \/ DetailOk
    \/ DetailFetchFails
    \/ SaveOk
    \/ SaveFails
    \/ Return

Spec == Init /\ [][Next]_vars

---------------------------------------------------------------------------
(* The parsers on their own: a text is chosen and each parser may be         *)
(* applied to it; no traversal runs.                                         *)

InitParse ==
    /\ src = "none"
    /\ pc = "parse"
    /\ TravIdle
    /\ fn = "none"
    /\ out = <<None, None>>
    /\ \/ \E g \in SizeInputs : given = g /\ text = TextOf(g)
       \/ \E t \in OtherTexts : given = [NotGiven EXCEPT !.form = "other"] /\ text = t

Apply(name, result) ==
    /\ pc = "parse"
    /\ fn' = name
    /\ out' = result
    /\ UNCHANGED <<text, given, travVars>>

CallFamousParseSize == Apply("famous.parse_size", famous_parse_size(text))

CallAtlanticParseSize == Apply("atlantic.parse_size", atlantic_parse_size(text))

CallParseDimensions == Apply("cigarbid.parse_dimensions", parse_dimensions(text))

CallParseSizeFromName == Apply("cigars_daily.parse_size_from_name", parse_size_from_name(text))

NextParse ==
    \/ CallFamousParseSize
    \/ CallAtlanticParseSize
    \/ CallParseDimensions
    \/ CallParseSizeFromName

SpecParse == InitParse /\ [][NextParse]_vars

---------------------------------------------------------------------------
(* The price parsers: each returns the pair <<primary (low) price, high      *)
(* price>>; parse_price_range has no high price.                             *)

NoHit == [ok |-> FALSE, g |-> <<>>, end |-> 0]

\* one regular expression matched at position i: the captured text and the position
\* after the match
\*   "decimal"  \d+\.\d+
\*   "numeric"  [\d\.]+
\*   "dollar"   \$\s*([\d,]+\.\d{2})
\*   "integer"  \d+
PatternAt(pat, s, i) ==
    CASE pat = "decimal" ->
            LET a == Span(s, i, Digits)
                b == Span(s, a + 1, Digits)
            IN IF a > i /\ a <= Len(s) /\ s[a] = "." /\ b > a + 1
               THEN [ok |-> TRUE, g |-> SubSeq(s, i, b - 1), end |-> b]
               ELSE NoHit
      [] pat = "numeric" ->
            LET a == Span(s, i, Digits \cup {"."})
            IN IF a > i THEN [ok |-> TRUE, g |-> SubSeq(s, i, a - 1), end |-> a] ELSE NoHit
      [] pat = "dollar" ->
            LET a == Span(s, i + 1, {" "})
                b == Span(s, a, Digits \cup {","})
            IN IF /\ s[i] = "$" /\ b > a
                  /\ b + 2 <= Len(s) /\ s[b] = "." /\ IsDigit(s[b + 1]) /\ IsDigit(s[b + 2])
               THEN [ok |-> TRUE, g |-> SubSeq(s, a, b + 2), end |-> b + 3]
               ELSE NoHit
      [] pat = "integer" ->
            LET a == Span(s, i, Digits)
            IN IF a > i THEN [ok |-> TRUE, g |-> SubSeq(s, i, a - 1), end |-> a] ELSE NoHit

\* re.findall(pat, s): the captured texts of the non-overlapping matches, left to right
RECURSIVE FindAllFrom(_, _, _)
FindAllFrom(pat, s, i) ==
    IF i > Len(s) THEN <<>>
    ELSE LET m == PatternAt(pat, s, i) IN
         IF m.ok THEN <<m.g>> \o FindAllFrom(pat, s, m.end)
         ELSE FindAllFrom(pat, s, i + 1)

FindAll(pat, s) == FindAllFrom(pat, s, 1)

\* atlantic_cigar_scraper.parse_price_range (holts_cigar_scraper.parse_price_range and
\* atlantic_cigar_scraper.money_to_float have the same body)
parse_price_range(price_text) ==
    LET nums == FindAll("decimal", Remove(price_text, ",")) IN
    IF price_text = <<>> \/ nums = <<>> THEN <<None, None>>
    ELSE <<safe_float(nums[1]), None>>

\* cigars_daily_scraper.scrape_detail_page: price_min, price_max of the price element
daily_price_range(price_text) ==
    LET prices == FindAll("numeric", price_text) IN
    IF Len(prices) >= 2 THEN <<safe_decimal(prices[1]), safe_decimal(prices[2])>>
    ELSE <<None, None>>

\* gotham_cigars_scraper.parse_category_card: low_price, high_price of the price element
gotham_card_prices(price_text) ==
    LET prices == FindAll("dollar", price_text) IN
    IF price_text = <<>> \/ prices = <<>> THEN <<None, None>>
    ELSE <<safe_float(Remove(prices[1], ",")),
           IF Len(prices) > 1 THEN safe_float(Remove(prices[Len(prices)], ",")) ELSE None>>

\* the numbers a price text is written with: the text, its value in thousandths and
\* whether it is written with exactly two decimals
NoToken == [txt |-> <<>>, val |-> 0, cents |-> FALSE]

LeadTokens ==
    {NoToken,
     [txt |-> <<"5">>, val |-> 5000, cents |-> FALSE],
     [txt |-> <<"2", ".", "5">>, val |-> 2500, cents |-> FALSE]}

FirstTokens ==
    {[txt |-> <<"8", ".", "5", "3">>, val |-> 8530, cents |-> TRUE],
     [txt |-> <<"8", ".", "5">>, val |-> 8500, cents |-> FALSE],
     [txt |-> <<"8">>, val |-> 8000, cents |-> FALSE],
     [txt |-> <<"1", ",", "2", "3", "4", ".", "5", "0">>, val |-> 1234500, cents |-> TRUE]}

SecondTokens == {NoToken, [txt |-> <<"1", "0", ".", "8", "9">>, val |-> 10890, cents |-> TRUE]}

Currencies == {<<"$">>, <<>>}

\* '$8.53', '$8.53 - $10.89', '5 $8.53', '2.5 8.5'
PriceText(g) ==
    (IF g.lead = NoToken THEN <<>> ELSE g.lead.txt \o <<" ">>)
        \o g.cur \o g.first.txt
        \o (IF g.second = NoToken THEN <<>> ELSE <<" ", "-", " ">> \o g.cur \o g.second.txt)

PriceInputs ==
    [form : {"price"}, lead : LeadTokens, cur : Currencies, first : FirstTokens,
     second : SecondTokens]

OtherPriceTexts == {<<>>, <<"C", "a", "l", "l">>, <<"$">>, <<"N", "/", "A">>}

InitPrice ==
    /\ src = "none"
    /\ pc = "parse"
    /\ TravIdle
    /\ fn = "none"
    /\ out = <<None, None>>
    /\ \/ \E g \in PriceInputs : given = g /\ text = PriceText(g)
       \/ \E t \in OtherPriceTexts : given = [form |-> "other"] /\ text = t

CallParsePriceRange == Apply("atlantic.parse_price_range", parse_price_range(text))

CallDailyPriceRange == Apply("cigars_daily.price_range", daily_price_range(text))

CallGothamCardPrices == Apply("gotham.card_prices", gotham_card_prices(text))

NextPrice ==
    \/ CallParsePriceRange
    \/ CallDailyPriceRange
    \/ CallGothamCardPrices

SpecPrice == InitPrice /\ [][NextPrice]_vars

---------------------------------------------------------------------------
(* The wrapper decomposer of famous_smoke_scraper.  Strings that may be      *)
(* absent are Absent or Str(characters).                                     *)

Absent == [kind |-> "none", val |-> <<>>]
Str(s) == [kind |-> "str", val |-> s]

\* safe_str on a string: stripped, None when nothing is left
safe_str(value) == IF Strip(value) = <<>> THEN Absent ELSE Str(Strip(value))

\* str.title(): a letter is upper case after a non-letter, lower case after a letter
Title(s) ==
    [k \in DOMAIN s |-> IF k = 1 \/ ~IsLetter(s[k - 1]) THEN Upper(s[k]) ELSE Lower(s[k])]

\* sub in s, and the first position where it occurs (0 when it does not)
OccursAt(sub, s, i) == i + Len(sub) - 1 <= Len(s) /\ SubSeq(s, i, i + Len(sub) - 1) = sub

IsSubstring(sub, s) == \E i \in 1..(Len(s) + 1) : OccursAt(sub, s, i)

FindSub(sub, s) ==
    IF IsSubstring(sub, s)
    THEN CHOOSE i \in 1..(Len(s) + 1) :
            OccursAt(sub, s, i) /\ \A j \in 1..(i - 1) : ~OccursAt(sub, s, j)
    ELSE 0

\* s.replace(old, "", 1)
RemoveFirst(s, old) ==
    LET i == FindSub(old, s) IN
    IF i = 0 THEN s ELSE SubSeq(s, 1, i - 1) \o SubSeq(s, i + Len(old), Len(s))

\* s.replace(old, ""): one pass, left to right
RECURSIVE RemoveAll(_, _)
RemoveAll(s, old) ==
    LET i == FindSub(old, s) IN
    IF i = 0 THEN s
    ELSE SubSeq(s, 1, i - 1) \o RemoveAll(SubSeq(s, i + Len(old), Len(s)), old)

WRAPPER_COLORS ==
    <<<<"n", "a", "t", "u", "r", "a", "l">>,
      <<"m", "a", "d", "u", "r", "o">>,
      <<"o", "s", "c", "u", "r", "o">>,
      <<"c", "l", "a", "r", "o">>,
      <<"d", "o", "u", "b", "l", "e", " ", "c", "l", "a", "r", "o">>,
      <<"e", "m", "s">>,
      <<"s", "u", "n", " ", "g", "r", "o", "w", "n">>,
      <<"s", "u", "n", "g", "r", "o", "w", "n">>,
      <<"c", "o", "l", "o", "r", "a", "d", "o">>,
      <<"c", "o", "l", "o", "r", "a", "d", "o", " ", "c", "l", "a", "r", "o">>,
      <<"c", "o", "l", "o", "r", "a", "d", "o", " ", "m", "a", "d", "u", "r", "o">>>>

WRAPPER_ORIGINS ==
    <<<<"u", "s", "a">>,
      <<"u", "n", "i", "t", "e", "d", " ", "s", "t", "a", "t", "e", "s">>,
      <<"h", "o", "n", "d", "u", "r", "a", "s">>,
      <<"n", "i", "c", "a", "r", "a", "g", "u", "a">>,
      <<"d", "o", "m", "i", "n", "i", "c", "a", "n">>,
      <<"d", "o", "m", "i", "n", "i", "c", "a", "n", " ", "r", "e", "p", "u", "b", "l", "i", "c">>,
      <<"m", "e", "x", "i", "c", "o">>,
      <<"e", "c", "u", "a", "d", "o", "r">>,
      <<"b", "r", "a", "z", "i", "l">>,
      <<"c", "a", "m", "e", "r", "o", "o", "n">>,
      <<"p", "a", "n", "a", "m", "a">>,
      <<"c", "o", "s", "t", "a", " ", "r", "i", "c", "a">>>>

\* the length of the longest entry of a vocabulary
RECURSIVE LongestLen(_)
LongestLen(vocab) ==
    IF vocab = <<>> THEN 0
    ELSE LET m == LongestLen(Tail(vocab))
         IN IF Len(Head(vocab)) > m THEN Len(Head(vocab)) ELSE m

\* the entries of exactly n characters and then the shorter ones, longest first
RECURSIVE FromLength(_, _)
FromLength(vocab, n) ==
    IF n = 0 THEN <<>>
    ELSE SelectSeq(vocab, LAMBDA e : Len(e) = n) \o FromLength(vocab, n - 1)

\* the vocabulary tried in the order it is written
SourceOrder(vocab) == vocab

\* sorted(vocab, key=len, reverse=True): longest first, equal lengths in source order
SortedLongestFirst(vocab) == FromLength(vocab, LongestLen(vocab))

\* for e in entries: if e in text: ... break
RECURSIVE FirstHit(_, _)
FirstHit(entries, t) ==
    IF entries = <<>> THEN <<>>
    ELSE IF IsSubstring(Head(entries), t) THEN Head(entries)
    ELSE FirstHit(Tail(entries), t)

\* the name an origin entry is reported under
OriginName(o) ==
    IF o \in {<<"u", "s", "a">>,
              <<"u", "n", "i", "t", "e", "d", " ", "s", "t", "a", "t", "e", "s">>}
    THEN <<"U", "S", "A">>
    ELSE IF o = <<"d", "o", "m", "i", "n", "i", "c", "a", "n">>
    THEN <<"D", "o", "m", "i", "n", "i", "c", "a", "n", " ",
           "R", "e", "p", "u", "b", "l", "i", "c">>
    ELSE Title(o)

\* famous_smoke_scraper.smart_parse_wrapper: <<color, leaf, origin>>
smart_parse_wrapper(combined) ==
    LET t == LowerAll(combined)
        c == FirstHit(SortedLongestFirst(WRAPPER_COLORS), t)
        o == FirstHit(SortedLongestFirst(WRAPPER_ORIGINS), t)
        color == IF c = <<>> THEN Absent ELSE Str(Title(c))
        origin == IF o = <<>> THEN Absent ELSE Str(OriginName(o))
        uncolored == IF color = Absent THEN combined ELSE RemoveFirst(combined, color.val)
        unplaced == IF origin = Absent THEN uncolored ELSE RemoveFirst(uncolored, origin.val)
        leaf_candidate == StripChars(RemoveAll(unplaced, <<"(", ")">>), {" ", "-", ","})
    IN IF combined = <<>> THEN <<Absent, Absent, Absent>>
       ELSE <<color, safe_str(leaf_candidate), origin>>

\* the wrapper descriptions: a leaf varietal, a color and an origin as the page spells
\* them, each of them optional
LeafSpellings ==
    {<<>>,
     <<"H", "a", "b", "a", "n", "o">>,
     <<"C", "o", "n", "n", "e", "c", "t", "i", "c", "u", "t", " ", "B", "r", "o", "a", "d", "l", "e", "a", "f">>}

ColorSpellings ==
    {<<>>,
     <<"M", "a", "d", "u", "r", "o">>,
     <<"C", "o", "l", "o", "r", "a", "d", "o", " ", "M", "a", "d", "u", "r", "o">>,
     <<"C", "o", "l", "o", "r", "a", "d", "o">>,
     <<"C", "l", "a", "r", "o">>,
     <<"C", "o", "l", "o", "r", "a", "d", "o", " ", "C", "l", "a", "r", "o">>,
     <<"M", "A", "D", "U", "R", "O">>,
     <<"m", "a", "d", "u", "r", "o">>,
     <<"S", "u", "n", " ", "G", "r", "o", "w", "n">>}

OriginSpellings ==
    {<<>>,
     <<"(", "U", "S", "A", ")">>,
     <<"(", "D", "o", "m", "i", "n", "i", "c", "a", "n", " ", "R", "e", "p", "u", "b", "l", "i", "c", ")">>,
     <<"(", "D", "o", "m", "i", "n", "i", "c", "a", "n", ")">>,
     <<"(", "U", "n", "i", "t", "e", "d", " ", "S", "t", "a", "t", "e", "s", ")">>,
     <<"N", "i", "c", "a", "r", "a", "g", "u", "a">>}

\* the non-empty parts joined by single spaces
RECURSIVE JoinWords(_)
JoinWords(parts) ==
    IF parts = <<>> THEN <<>>
    ELSE LET rest == JoinWords(Tail(parts)) IN
         IF Head(parts) = <<>> THEN rest
         ELSE IF rest = <<>> THEN Head(parts)
         ELSE Head(parts) \o <<" ">> \o rest

\* 'Connecticut Broadleaf Maduro (USA)'
WrapperText(g) == JoinWords(<<g.leaf, g.color, g.origin>>)

WrapperInputs ==
    [form : {"wrapper"}, leaf : LeafSpellings, color : ColorSpellings,
     origin : OriginSpellings]

InitWrapper ==
    /\ src = "none"
    /\ pc = "parse"
    /\ TravIdle
    /\ fn = "none"
    /\ out = <<Absent, Absent, Absent>>
    /\ \E g \in WrapperInputs : given = g /\ text = WrapperText(g)

CallSmartParseWrapper == Apply("famous.smart_parse_wrapper", smart_parse_wrapper(text))

NextWrapper == CallSmartParseWrapper

SpecWrapper == InitWrapper /\ [][NextWrapper]_vars

---------------------------------------------------------------------------
(* Packaging quantities: each extractor returns <<bundle quantity, box       *)
(* quantity>>.                                                               *)

\* str.isdigit()
IsDigitString(p) == p # <<>> /\ AllDigits(p)

\* for p in parts: if p.isdigit(): return int(p)
RECURSIVE FirstDigitWord(_)
FirstDigitWord(parts) ==
    IF parts = <<>> THEN None
    ELSE IF IsDigitString(Head(parts)) THEN IntOf(Head(parts))
    ELSE FirstDigitWord(Tail(parts))

\* famous_smoke_scraper.parse_quantity_packaging
parse_quantity_packaging(label) ==
    IF label = <<>> THEN None ELSE FirstDigitWord(SplitWs(label))

\* famous_smoke_scraper.scrape_product_details: bundle_qty, box_qty
famous_quantities(quantity_packaging) ==
    LET qty_number == parse_quantity_packaging(quantity_packaging)
        low == LowerAll(quantity_packaging)
    IN <<IF quantity_packaging # <<>> /\ IsSubstring(<<"b", "u", "n", "d", "l", "e">>, low)
         THEN qty_number ELSE None,
         IF quantity_packaging # <<>> /\ IsSubstring(<<"b", "o", "x">>, low)
         THEN qty_number ELSE None>>

\* \w of the quantity pattern
WordChars == Digits \cup {"_"} \cup {LowerCase[k] : k \in DOMAIN LowerCase}
                    \cup {UpperCase[k] : k \in DOMAIN UpperCase}

\* (\d+)\s+\w+\s+of\s+(\d+), ignoring case, matched at position i
PacksOfAt(s, i) ==
    LET a == Span(s, i, Digits)
        b == Span(s, a, {" "})
        c == Span(s, b, WordChars)
        d == Span(s, c, {" "})
        e == Span(s, d + 2, {" "})
        f == Span(s, e, Digits)
    IN IF /\ a > i /\ b > a /\ c > b /\ d > c
          /\ d + 1 <= Len(s) /\ Lower(s[d]) = "o" /\ Lower(s[d + 1]) = "f"
          /\ e > d + 2 /\ f > e
       THEN [ok |-> TRUE, g1 |-> SubSeq(s, i, a - 1), g2 |-> SubSeq(s, e, f - 1)]
       ELSE NoMatch

PacksOfSearch(s) ==
    LET hits == {i \in DOMAIN s : PacksOfAt(s, i).ok} IN
    IF hits = {} THEN NoMatch
    ELSE PacksOfAt(s, CHOOSE i \in hits : \A j \in hits : i <= j)

\* gotham_cigars_scraper.parse_specs_table: bundle_qty, box_qty of the quantity cell
gotham_quantities(qty_text) ==
    LET m_two == PacksOfSearch(qty_text)
        m_one == FindAll("integer", qty_text)
    IN IF qty_text = <<>> THEN <<None, None>>
       ELSE IF m_two.ok THEN <<IntOf(m_two.g2), IntOf(m_two.g1)>>
       ELSE IF m_one # <<>> THEN <<None, IntOf(m_one[1])>>
       ELSE <<None, None>>

\* the packaging labels: a package word, a count and the way they are put together
PackageWords ==
    {<<"B", "o", "x">>, <<"B", "u", "n", "d", "l", "e">>, <<"P", "a", "c", "k">>, <<"b", "o", "x">>, <<"B", "U", "N", "D", "L", "E">>, <<"T", "i", "n">>}

Counts == {<<"5">>, <<"1", "0">>, <<"2", "0">>, <<"1", "0", "0">>}

LabelShapes == {"of", "bare", "nested", "count", "mixed"}

\* 'Box of 20', 'Box', '5 Boxs of 20', '20-count Box', 'Box of 20 Bundles'
LabelText(g) ==
    CASE g.shape = "of" -> g.word \o <<" ", "o", "f", " ">> \o g.n
      [] g.shape = "bare" -> g.word
      [] g.shape = "nested" -> <<"5", " ">> \o g.word \o <<"s", " ", "o", "f", " ">> \o g.n
      [] g.shape = "count" -> g.n \o <<"-", "c", "o", "u", "n", "t", " ">> \o g.word
      [] g.shape = "mixed" ->
            g.word \o <<" ", "o", "f", " ">> \o g.n \o <<" ", "B", "u", "n", "d", "l", "e", "s">>

LabelInputs == [form : {"label"}, word : PackageWords, n : Counts, shape : LabelShapes]

InitQty ==
    /\ src = "none"
    /\ pc = "parse"
    /\ TravIdle
    /\ fn = "none"
    /\ out = <<None, None>>
    /\ \/ \E g \in LabelInputs : given = g /\ text = LabelText(g)
       \/ given = [form |-> "other"] /\ text = <<>>

CallFamousQuantities == Apply("famous.quantities", famous_quantities(text))

CallGothamQuantities == Apply("gotham.quantities", gotham_quantities(text))

NextQty ==
    \/ CallFamousQuantities
    \/ CallGothamQuantities

SpecQty == InitQty /\ [][NextQty]_vars

---------------------------------------------------------------------------
(* Reconciliation of the detail-page value of a field with its listing value *)

\* bool(v) of a value that is None or a number
Truthy(v) == v.kind # "none" /\ ~(v.kind = "num" /\ v.val = 0)

\* a or b
PyOr(a, b) == IF Truthy(a) THEN a ELSE b

\* a if a is not None else b
IfNotNone(a, b) == IF a # None THEN a ELSE b

\* cigarbid_scraper.main: size_length = detail["size_length"] or item["size_length"]
cigarbid_reconcile(detail_value, item_value) == PyOr(detail_value, item_value)

\* jrcigars run_scraper: safe_float(detail["length"]) or safe_float(length_from_listing)
jrcigars_reconcile(detail_value, listing_value) == PyOr(detail_value, listing_value)

\* cigars_daily_scraper.main: detail[...] if detail[...] is not None else item[...]
daily_reconcile(detail_value, item_value) == IfNotNone(detail_value, item_value)

\* the values a candidate may have: none, zero, lengths and a ring gauge
CandidateValues == {None, Num(0), Num(5000), Num(6000), Num(6500), Num(52000)}

CandidateInputs == [form : {"candidates"}, detail : CandidateValues, listing : CandidateValues]

InitReconcile ==
    /\ src = "none"
    /\ pc = "parse"
    /\ TravIdle
    /\ fn = "none"
    /\ out = <<None, None>>
    /\ text = <<>>
    /\ given \in CandidateInputs

CallCigarbidReconcile ==
    Apply("cigarbid.reconcile", <<cigarbid_reconcile(given.detail, given.listing), None>>)

CallJrcigarsReconcile ==
    Apply("jrcigars.reconcile", <<jrcigars_reconcile(given.detail, given.listing), None>>)

CallDailyReconcile ==
    Apply("cigars_daily.reconcile", <<daily_reconcile(given.detail, given.listing), None>>)

NextReconcile ==
    \/ CallCigarbidReconcile
    \/ CallJrcigarsReconcile
    \/ CallDailyReconcile

SpecReconcile == InitReconcile /\ [][NextReconcile]_vars

---------------------------------------------------------------------------
(* The coercion helpers on values of any type.  A Python value is None, a    *)
(* string, an int, a float or a list; a call returns a value or leaves with  *)
(* an exception.                                                             *)

PyNone == [type |-> "none"]
PyStr(s) == [type |-> "str", s |-> s]
PyInt(n) == [type |-> "int", n |-> n]
PyFloat(x) == [type |-> "float", x |-> x]
PyList == [type |-> "list"]

Exceptions == {"TypeError", "ValueError", "OverflowError"}

Raised(e) == [kind |-> e, val |-> 0]
IsRaised(r) == r.kind \in Exceptions

\* float(v)
PyFloatOf(v) ==
    CASE v.type = "str" -> IF FloatOf(v.s) = None THEN Raised("ValueError") ELSE FloatOf(v.s)
      [] v.type = "int" -> Num(1000 * v.n)
      [] v.type = "float" -> v.x
      [] OTHER -> Raised("TypeError")

\* the integer part of a number in thousandths, rounded towards zero
Truncated(val) == IF val >= 0 THEN val \div 1000 ELSE -((-val) \div 1000)

\* int(v)
PyIntOf(v) ==
    CASE v.type = "str" -> IF IntOf(v.s) = None THEN Raised("ValueError") ELSE IntOf(v.s)
      [] v.type = "int" -> Num(1000 * v.n)
      [] v.type = "float" ->
            IF v.x.kind = "nan" THEN Raised("ValueError")
            ELSE IF v.x.kind = "inf" THEN Raised("OverflowError")
            ELSE Num(1000 * Truncated(v.x.val))
      [] OTHER -> Raised("TypeError")

\* the decimal digits of a natural number
RECURSIVE DigitsOf(_)
DigitsOf(n) ==
    LET d == <<"0", "1", "2", "3", "4", "5", "6", "7", "8", "9">>[(n % 10) + 1]
    IN IF n < 10 THEN <<d>> ELSE DigitsOf(n \div 10) \o <<d>>

\* the decimals of a number of thousandths, without trailing zeros ('0' when none)
DecimalsOf(m) ==
    IF m % 1000 = 0 THEN <<"0">>
    ELSE IF m % 100 = 0 THEN DigitsOf((m % 1000) \div 100)
    ELSE IF m % 10 = 0
    THEN (IF m % 1000 < 100 THEN <<"0">> ELSE <<>>) \o DigitsOf((m % 1000) \div 10)
    ELSE (IF m % 1000 < 10 THEN <<"0", "0">> ELSE IF m % 1000 < 100 THEN <<"0">> ELSE <<>>)
            \o DigitsOf(m % 1000)

Magnitude(n) == IF n < 0 THEN -n ELSE n

\* str(v) of a string, an int, a float or an empty list
PyStrOf(v) ==
    CASE v.type = "str" -> v.s
      [] v.type = "int" -> (IF v.n < 0 THEN <<"-">> ELSE <<>>) \o DigitsOf(Magnitude(v.n))
      [] v.type = "float" ->
            IF v.x.kind = "nan" THEN <<"n", "a", "n">>
            ELSE IF v.x.kind = "inf"
            THEN (IF v.x.val < 0 THEN <<"-">> ELSE <<>>) \o <<"i", "n", "f">>
            ELSE (IF v.x.val < 0 THEN <<"-">> ELSE <<>>)
                    \o DigitsOf(Magnitude(v.x.val) \div 1000) \o <<".">>
                    \o DecimalsOf(Magnitude(v.x.val))
      [] v.type = "list" -> <<"[", "]">>

\* try: ... except (classes): return None
Except(classes, r) == IF r.kind \in classes THEN None ELSE r

\* famous_smoke_scraper.safe_decimal, safe_int: except (TypeError, ValueError)
famous_safe_decimal(value) ==
    IF value = PyNone THEN None ELSE Except({"TypeError", "ValueError"}, PyFloatOf(value))

famous_safe_int(value) ==
    IF value = PyNone THEN None ELSE Except({"TypeError", "ValueError"}, PyIntOf(value))

\* cigarbid_scraper.safe_decimal, safe_int: bare except
cigarbid_safe_decimal(value) ==
    IF value = PyNone THEN None ELSE Except(Exceptions, PyFloatOf(value))

cigarbid_safe_int(value) ==
    IF value = PyNone THEN None ELSE Except(Exceptions, PyIntOf(value))

\* cigar_aficionado_scraper.safe_decimal: except Exception
aficionado_safe_decimal(value) ==
    IF value = PyNone THEN None ELSE Except(Exceptions, PyFloatOf(value))

\* float(str(v).replace(",", "").strip())
FloatOfStr(v) == PyFloatOf(PyStr(Strip(Remove(PyStrOf(v), ","))))

\* cigarsdirect_scraper.safe_float: bare except
cigarsdirect_safe_float(v) ==
    IF v = PyNone THEN None ELSE Except(Exceptions, FloatOfStr(v))

\* jrcigars_medium_to_full_scraper.safe_float: except Exception
jrcigars_safe_float(v) ==
    IF v = PyNone THEN None ELSE Except(Exceptions, FloatOfStr(v))

\* safe_str of famous, cigarbid, cigarsdirect, aficionado, jrcigars
any_safe_str(value) ==
    IF value = PyNone THEN Absent ELSE safe_str(PyStrOf(value))

Pound == "U+00A3"      \* the pound sign, one character

\* s.replace(old, new) for a one-character `old`
RECURSIVE RemoveEvery(_, _)
RemoveEvery(s, old) ==
    LET i == FindSub(old, s) IN
    IF i = 0 THEN s
    ELSE SubSeq(s, 1, i - 1) \o RemoveEvery(SubSeq(s, i + Len(old), Len(s)), old)

\* the text of a page element, None when the element is missing
ElementText(el) == IF el = PyNone THEN <<>> ELSE Strip(el.s)

\* cigar_aficionado_scraper.scrape_detail_page: price
aficionado_price(price_el) ==
    LET raw == Strip(RemoveEvery(ElementText(price_el), <<"P", "r", "i", "c", "e", ":">>))
    IN IF price_el = PyNone THEN None
       ELSE aficionado_safe_decimal(PyStr(Remove(Remove(raw, Pound), "$")))

\* cigarbid_scraper.scrape_detail_page: starting_bid (and msrp)
cigarbid_starting_bid(value_cell) ==
    IF value_cell = PyNone THEN None
    ELSE cigarbid_safe_decimal(PyStr(Remove(ElementText(value_cell), "$")))

\* the first run of digits of a text as an int, `default` when there is none
FirstInteger(t, default) ==
    IF FindAll("integer", t) = <<>> THEN default ELSE IntOf(FindAll("integer", t)[1])

\* holts_cigar_scraper.parse_review_count
parse_review_count(review_text) ==
    IF review_text = PyNone \/ review_text.s = <<>> THEN Num(0)
    ELSE FirstInteger(review_text.s, Num(0))

\* atlantic_cigar_scraper.parse_pdp: review_count
atlantic_review_count(review_text_tag) ==
    IF review_text_tag = PyNone THEN Num(0)
    ELSE IF IsSubstring(<<"B", "e", " ", "t", "h", "e", " ", "f", "i", "r", "s", "t">>,
                        ElementText(review_text_tag))
    THEN Num(0)
    ELSE FirstInteger(ElementText(review_text_tag), Num(0))

\* gotham_cigars_scraper.parse_category_card: review_count
gotham_review_count(review_el) ==
    IF review_el = PyNone THEN Num(0)
    ELSE FirstInteger(Remove(ElementText(review_el), ","), Num(0))

\* the raw texts the helpers are given
RawTexts ==
    {<<>>,
     <<" ">>,
     <<"a", "b", "c">>,
     <<"N", "/", "A">>,
     <<"5">>,
     <<"5", ".", "5">>,
     <<" ", "7", " ">>,
     <<"0">>,
     <<"-", "3">>,
     <<"n", "a", "n">>,
     <<"N", "a", "N">>,
     <<"i", "n", "f">>,
     <<"-", "i", "n", "f">>,
     <<"1", ",", "2", "3", "4", ".", "5", "0">>,
     <<"$", "1", ",", "2", "3", "4", ".", "5", "0">>,
     <<"$", "8", ".", "5", "3">>,
     <<"U+00A3", "8", ".", "5", "3">>,
     <<"P", "r", "i", "c", "e", ":", " ", "$", "8", ".", "5", "3">>,
     <<"P", "r", "i", "c", "e", ":", " ", "$", "1", ",", "2", "3", "4", ".", "5", "0">>,
     <<"P", "r", "i", "c", "e", ":", "U+00A3", "8", ".", "5", "3">>,
     <<"P", "r", "i", "c", "e", ":", " ", "N", "/", "A">>,
     <<"P", "r", "i", "c", "e", ":">>,
     <<"1", "1", " ", "R", "e", "v", "i", "e", "w", "s">>,
     <<"1", ",", "2", "0", "4", " ", "R", "e", "v", "i", "e", "w", "s">>,
     <<"B", "e", " ", "t", "h", "e", " ", "f", "i", "r", "s", "t", " ", "t", "o", " ", "r", "e", "v", "i", "e", "w">>}

\* the values that are not text
OtherValues ==
    {PyNone, PyInt(0), PyInt(5), PyFloat(Num(5500)), PyFloat(Num(0)), PyFloat(NaN),
     PyFloat(Inf(1)), PyList}

InitCoerce ==
    /\ src = "none"
    /\ pc = "parse"
    /\ TravIdle
    /\ fn = "none"
    /\ out = <<None, None>>
    /\ \/ \E t \in RawTexts : given = [form |-> "value", value |-> PyStr(t)] /\ text = t
       \/ \E v \in OtherValues : given = [form |-> "value", value |-> v] /\ text = <<>>

\* a helper is called with the value
CallHelper(name, result) == Apply(name, <<result, None>>)

\* a page extractor is given the text of an element, or no element
CallExtractor(name, result) ==
    given.value.type \in {"none", "str"} /\ Apply(name, <<result, None>>)

CallFamousSafeDecimal == CallHelper("famous.safe_decimal", famous_safe_decimal(given.value))

CallFamousSafeInt == CallHelper("famous.safe_int", famous_safe_int(given.value))

CallCigarbidSafeDecimal == CallHelper("cigarbid.safe_decimal", cigarbid_safe_decimal(given.value))

CallCigarbidSafeInt == CallHelper("cigarbid.safe_int", cigarbid_safe_int(given.value))

CallAficionadoSafeDecimal ==
    CallHelper("aficionado.safe_decimal", aficionado_safe_decimal(given.value))

CallCigarsdirectSafeFloat ==
    CallHelper("cigarsdirect.safe_float", cigarsdirect_safe_float(given.value))

CallJrcigarsSafeFloat == CallHelper("jrcigars.safe_float", jrcigars_safe_float(given.value))

CallSafeStr == CallHelper("safe_str", any_safe_str(given.value))

\* the price element is the parent of a label that starts with "Price"
CallAficionadoPrice ==
    /\ given.value.type = "str" => IsSubstring(<<"P", "r", "i", "c", "e">>, given.value.s)
    /\ CallExtractor("aficionado.price", aficionado_price(given.value))

CallCigarbidStartingBid ==
    CallExtractor("cigarbid.starting_bid", cigarbid_starting_bid(given.value))

CallParseReviewCount ==
    CallExtractor("holts.parse_review_count", parse_review_count(given.value))

CallAtlanticReviewCount ==
    CallExtractor("atlantic.review_count", atlantic_review_count(given.value))

CallGothamReviewCount ==
    CallExtractor("gotham.review_count", gotham_review_count(given.value))

NextCoerce ==
    \/ CallFamousSafeDecimal
    \/ CallFamousSafeInt
    \/ CallCigarbidSafeDecimal
    \/ CallCigarbidSafeInt
    \/ CallAficionadoSafeDecimal
    \/ CallCigarsdirectSafeFloat
    \/ CallJrcigarsSafeFloat
    \/ CallSafeStr
    \/ CallAficionadoPrice
    \/ CallCigarbidStartingBid
    \/ CallParseReviewCount
    \/ CallAtlanticReviewCount
    \/ CallGothamReviewCount

SpecCoerce == InitCoerce /\ [][NextCoerce]_vars

---------------------------------------------------------------------------
(* Assembly of the notes field *)

Newline == "NL"        \* the line feed, one character

\* truth value of an optional string in `if`
StrTruthy(v) == v # Absent /\ v.val # <<>>

\* sep.join(parts)
RECURSIVE JoinWith(_, _)
JoinWith(parts, sep) ==
    IF parts = <<>> THEN <<>>
    ELSE IF Len(parts) = 1 THEN parts[1]
    ELSE parts[1] \o sep \o JoinWith(Tail(parts), sep)

\* parts.append(text) under `if cond`
AppendIf(parts, cond, t) == IF cond THEN Append(parts, t) ELSE parts

\* "\n\n".join(parts) if parts else None
BlankLineJoined(parts) ==
    IF parts = <<>> THEN Absent ELSE Str(JoinWith(parts, <<Newline, Newline>>))

\* atlantic_cigar_scraper.scrape_strength_category: website_notes
atlantic_website_notes(summary_text, description) ==
    LET p1 == AppendIf(<<>>, StrTruthy(summary_text), summary_text.val)
        p2 == AppendIf(p1, StrTruthy(description), description.val)
    IN BlankLineJoined(p2)

\* holts_cigar_scraper.scrape_strength_category: website_notes
holts_website_notes(description, shapes_list) ==
    LET p1 == AppendIf(<<>>, StrTruthy(description), description.val)
        p2 == AppendIf(p1, StrTruthy(shapes_list),
                       <<"S", "h", "a", "p", "e", "s", ":", " ">> \o shapes_list.val)
    IN BlankLineJoined(p2)

\* cigarbid_scraper.scrape_detail_page: meta_text of a lot without bids,
\* MSRP, units or dates
cigarbid_meta_text(status, lot_id) ==
    LET b1 == AppendIf(<<>>, StrTruthy(status), <<"L", "o", "t", " ", "S", "t", "a", "t", "u", "s", ":", " ">> \o status.val)
        b2 == AppendIf(b1, StrTruthy(lot_id), <<"L", "o", "t", " ", "I", "D", ":", " ">> \o lot_id.val)
    IN IF b2 = <<>> THEN Absent ELSE Str(JoinWith(b2, <<" ", "|", " ">>))

\* cigarbid_scraper.scrape_detail_page: website_notes
cigarbid_website_notes(description_text, meta_text) ==
    IF StrTruthy(description_text) /\ StrTruthy(meta_text)
    THEN Str(description_text.val \o <<Newline, Newline>> \o meta_text.val)
    ELSE IF StrTruthy(description_text) THEN description_text
    ELSE meta_text

\* what the pages give: a part is missing, empty or a text
Summaries == {Absent, Str(<<>>), Str(<<"M", "i", "l", "d", ".">>), Str(<<"A", " ", "b", "o", "x", ".">>)}
Descriptions == {Absent, Str(<<>>), Str(<<"R", "i", "c", "h", " ", "a", "n", "d", " ", "f", "u", "l", "l", ".">>), Str(<<"A", "g", "e", "d", ".">>)}
ShapesLists == {Absent, Str(<<"R", "o", "b", "u", "s", "t", "o", ",", " ", "T", "o", "r", "o">>)}
Statuses == {Absent, Str(<<"O", "p", "e", "n">>)}
LotIds == {Absent, Str(<<"7">>)}

NotesInputs ==
    [form : {"notes"}, summary : Summaries, description : Descriptions,
     shapes_list : ShapesLists, status : Statuses, lot_id : LotIds]

InitNotes ==
    /\ src = "none"
    /\ pc = "parse"
    /\ TravIdle
    /\ fn = "none"
    /\ text = <<>>
    /\ out = <<Absent, Absent>>
    /\ given \in NotesInputs

\* only the atlantic listing carries a summary
NoListingSummary == given.summary = Absent

CallAtlanticWebsiteNotes ==
    /\ given.shapes_list = Absent /\ given.status = Absent /\ given.lot_id = Absent
    /\ Apply("atlantic.website_notes",
             <<atlantic_website_notes(given.summary, given.description), Absent>>)

CallHoltsWebsiteNotes ==
    /\ NoListingSummary
    /\ given.status = Absent /\ given.lot_id = Absent
    /\ Apply("holts.website_notes",
             <<holts_website_notes(given.description, given.shapes_list), Absent>>)

CallCigarbidWebsiteNotes ==
    /\ NoListingSummary
    /\ given.shapes_list = Absent
    /\ given.description # Str(<<>>)
    /\ Apply("cigarbid.website_notes",
             <<cigarbid_website_notes(given.description,
                                      cigarbid_meta_text(given.status, given.lot_id)),
               Absent>>)

NextNotes ==
    \/ CallAtlanticWebsiteNotes
    \/ CallHoltsWebsiteNotes
    \/ CallCigarbidWebsiteNotes

SpecNotes == InitNotes /\ [][NextNotes]_vars

---------------------------------------------------------------------------
(* The product loop of cigarsdirect_scraper.run_scraper: a page of the JSON  *)
(* feed lists products, each with a handle and a list of variants, and one   *)
(* record is built and saved for every variant.                              *)

MaxVariants == 2
MaxFeedPages == 2

Handles == {"corona", "robusto"}

\* product_url = f"{BASE_URL}/products/{handle}"
product_url(handle) == <<"/products/", handle>>

\* data.get("products", []): n products of page p
Products(p, handles, variants) ==
    [i \in DOMAIN handles |-> [id |-> <<p, i>>, handle |-> handles[i], variants |-> variants[i]]]

InitVariants ==
    /\ src = "cigarsdirect"
    /\ pc = "listing"
    /\ TravIdle
    /\ ParseIdle

\* the page of the feed arrives: `if not products: break`, else the product loop starts
ProductsReturn ==
    /\ pc = "listing"
    /\ fetches < MaxFeedPages
    /\ fetches' = fetches + 1
    /\ \E n \in 0..MaxItems :
         \E handles \in [1..n -> Handles], variants \in [1..n -> 0..MaxVariants] :
            /\ listed' = Append(listed, [n |-> n, next |-> FALSE, missing |-> {}])
            /\ IF n = 0
               THEN cards' = <<>> /\ idx' = 0 /\ pc' = "ended"
               ELSE cards' = Products(page, handles, variants) /\ idx' = 1 /\ pc' = "item"
    /\ UNCHANGED <<src, cat, page, nextLink, rec, emitted, stored, log, detailFailed,
                   sinkFailed, inflight, total_inserted, grand_total, finished, faults, exc>>
    /\ UNCHANGED parseVars

\* the records of one product, one per variant, all with the product's url
VariantRecords(product) ==
    [v \in 1..product.variants |->
        [id |-> <<product.id[1], product.id[2], v>>, url |-> product_url(product.handle)]]

\* for variant in product.get("variants", []): build the record, save it, count it;
\* save_record_to_sql logs a failed insert and returns
SaveVariants ==
    /\ pc = "item"
    /\ LET records == VariantRecords(cards[idx]) IN
       \E failed \in SUBSET DOMAIN records :
          /\ faults + Cardinality(failed) <= MaxFaults
          /\ faults' = faults + Cardinality(failed)
          /\ emitted' = emitted \o records
          /\ stored' = stored \o SelectSeq(records, LAMBDA r : r.id[3] \notin failed)
          /\ sinkFailed' = sinkFailed \cup {records[v].id : v \in failed}
          /\ log' = log \o SelectSeq([v \in DOMAIN records |-> LogLine("sink", records[v].id)],
                                     LAMBDA l : l.ref[3] \in failed)
          /\ total_inserted' = total_inserted + Len(records)
    /\ AdvanceItem
    /\ UNCHANGED <<src, cat, cards, nextLink, rec, listed, detailFailed, inflight,
                   grand_total, finished, fetches, exc>>
    /\ UNCHANGED parseVars

NextVariants ==
    \/ ListingFetchFails
    \/ ProductsReturn
    \/ SaveVariants
    \/ Return

SpecVariants == InitVariants /\ [][NextVariants]_vars

---------------------------------------------------------------------------
(* famous_smoke_scraper: the record of one listing card, as main assembles   *)
(* it and as save_record_to_sql leaves it.  Of the record's fields the url,  *)
(* the name, the ring gauge and the rating are kept; the others are built    *)
(* and coerced by the same helpers.                                          *)

BASE_URL == <<"h", "t", "t", "p", "s", ":", "/", "/", "w", "w", "w", ".", "f", "a", "m", "o", "u", "s", "-", "s", "m", "o", "k", "e", ".", "c", "o", "m">>

\* s.startswith(prefix)
StartsWith(s, prefix) == Len(s) >= Len(prefix) /\ SubSeq(s, 1, Len(prefix)) = prefix

\* scrape_listing_page: url of a card
card_url(href) == IF StartsWith(href, <<"h", "t", "t", "p">>) THEN href ELSE BASE_URL \o href

\* an optional string, a number or None as the Python value it is
PyOfStr(v) == IF v = Absent THEN PyNone ELSE PyStr(v.val)
PyOfInt(r) == IF r = None THEN PyNone ELSE PyInt(r.val \div 1000)
PyOfFloat(r) == IF r = None THEN PyNone ELSE PyFloat(r)

\* main: record = {...}
famous_record(href, name_text, ring, filled_stars) ==
    [url |-> PyStr(card_url(href)),
     cigar_name |-> PyOfStr(safe_str(Strip(name_text))),
     size_ring_gauge |-> ring,
     rating |-> PyOfFloat(famous_safe_decimal(PyInt(filled_stars)))]

\* save_record_to_sql: the fields of the record after the coercion loop
save_record_to_sql(record) ==
    [url |-> PyOfStr(any_safe_str(record.url)),
     cigar_name |-> PyOfStr(any_safe_str(record.cigar_name)),
     size_ring_gauge |-> PyOfInt(famous_safe_int(record.size_ring_gauge)),
     rating |-> PyOfFloat(famous_safe_decimal(record.rating))]

Hrefs == {<<"/", "a">>, <<"/", "a", " ">>, <<"h", "t", "t", "p", ":", "/", "/", "x", "/", "a">>, <<"h", "t", "t", "p", ":", "/", "/", "x", "/", "b", " ">>}
NameTexts == {<<"C", "i", "g", "a", "r", " ", "A">>, <<" ", "B", " ">>, <<"C">>}
RingValues == {PyNone, PyInt(50), PyInt(52)}
MaxStars == 5

CardInputs ==
    [form : {"card"}, href : Hrefs, name : NameTexts, ring : RingValues, stars : 0..MaxStars]

NoRecord == [url |-> PyNone, cigar_name |-> PyNone, size_ring_gauge |-> PyNone, rating |-> PyNone]

InitSave ==
    /\ src = "none"
    /\ pc = "parse"
    /\ TravIdle
    /\ fn = "none"
    /\ text = <<>>
    /\ out = <<NoRecord, NoRecord>>
    /\ given \in CardInputs

\* main builds the record; out holds the record as built and the record as it is now
BuildRecord ==
    /\ fn = "none"
    /\ LET record == famous_record(given.href, given.name, given.ring, given.stars)
       IN Apply("famous.record", <<record, record>>)

\* save_record_to_sql(conn, record) assigns the coerced values to the record's keys
SaveRecord ==
    /\ fn = "famous.record"
    /\ Apply("famous.save_record_to_sql", <<out[1], save_record_to_sql(out[2])>>)

NextSave ==
    \/ BuildRecord
    \/ SaveRecord

SpecSave == InitSave /\ [][NextSave]_vars

---------------------------------------------------------------------------
(* The length of gotham_cigars_scraper.parse_specs_table and of              *)
(* cigar_aficionado_scraper.parse_fractional_length                          *)

\* the first position of a character of `class` in s from i on, 0 when there is none
RECURSIVE FirstOf(_, _, _)
FirstOf(s, i, class) ==
    IF i > Len(s) THEN 0 ELSE IF s[i] \in class THEN i ELSE FirstOf(s, i + 1, class)

\* re.search(r"(\d+\s*\d*/?\d*)", size_text): group 1, <<>> when nothing matches
LengthGroup(size_text) ==
    LET i == FirstOf(size_text, 1, Digits)
        a == Span(size_text, i, Digits)
        b == Span(size_text, a, {" "})
        c == Span(size_text, b, Digits)
        d == IF c <= Len(size_text) /\ size_text[c] = "/" THEN c + 1 ELSE c
        e == Span(size_text, d, Digits)
    IN IF i = 0 THEN <<>> ELSE SubSeq(size_text, i, e - 1)

\* num / den of two floats, in thousandths; ZeroDivisionError and ValueError are
\* caught by the `except Exception: pass` around the division
Quotient(num, den) ==
    IF num.kind # "num" \/ den.kind # "num" \/ den.val = 0 THEN None
    ELSE Num((num.val * 1000) \div den.val)

\* parse_specs_table: result["size_length"]
gotham_size_length(size_text) ==
    LET frac == Remove(LengthGroup(size_text), " ")
        parts == SplitOnce(frac, "/")
    IN IF frac = <<>> THEN None
       ELSE IF Contains(frac, "/") THEN Quotient(FloatOf(parts[1]), FloatOf(parts[2]))
       ELSE safe_float(frac)

\* re.search(r"[xX]\s*(\d+)", size_text) from position i on: group 1 as an int
RECURSIVE RingFrom(_, _)
RingFrom(s, i) ==
    LET k == FirstOf(s, i, {"x", "X"})
        a == Span(s, k + 1, {" "})
        b == Span(s, a, Digits)
    IN IF k = 0 THEN None
       ELSE IF b > a THEN IntOf(SubSeq(s, a, b - 1))
       ELSE RingFrom(s, k + 1)

\* parse_specs_table: result["ring_gauge"]
gotham_ring_gauge(size_text) == RingFrom(size_text, 1)

\* cigar_aficionado_scraper.parse_fractional_length
parse_fractional_length(length_text) ==
    LET parts == SplitWs(Strip(Remove(length_text, "\"")))
    IN IF length_text = <<>> THEN None
       ELSE IF Len(parts) = 1 THEN FloatOf(parts[1])
       ELSE IF Len(parts) = 2
       THEN LET whole == FloatOf(parts[1])
            IN IF whole.kind = "num" THEN Num(whole.val + FractionValue(parts[2]))
               ELSE IF whole.kind = "none" THEN Num(FractionValue(parts[2]))
               ELSE whole
       ELSE None

\* '5 1/8"': the text of the LENGTH attribute
LengthText(g) ==
    g.whole \o (IF g.frac = NoFraction THEN <<>> ELSE <<" ">> \o g.frac) \o <<"\"">>

\* a size cell of the specs table, or the text of a LENGTH attribute
InitLength ==
    /\ src = "none"
    /\ pc = "parse"
    /\ TravIdle
    /\ fn = "none"
    /\ out = <<None, None>>
    /\ \E g \in SizeInputs :
         \/ g.wrap \in {"bare", "shape"} /\ given = g /\ text = TextOf(g)
         \/ /\ g.wrap = "quoted" /\ g.sep = <<"x">> /\ g.ring = <<"5", "2">>
            /\ given = [g EXCEPT !.form = "length"]
            /\ text = LengthText(g)

CallParseSpecsTable ==
    /\ given.form = "size"
    /\ Apply("gotham.parse_specs_table", <<gotham_size_length(text), gotham_ring_gauge(text)>>)

CallParseFractionalLength ==
    /\ given.form = "length"
    /\ Apply("aficionado.parse_fractional_length", <<parse_fractional_length(text), None>>)

NextLength ==
    \/ CallParseSpecsTable
    \/ CallParseFractionalLength

SpecLength == InitLength /\ [][NextLength]_vars

---------------------------------------------------------------------------
(* famous_smoke_scraper.scrape_product_details: the three wrapper fields,    *)
(* from the attribute table and from the combined 'Wrapper' attribute        *)

\* a field that takes the value decomposed from the combined text whenever there is one
DecomposedFirst(structured, decomposed) ==
    IF StrTruthy(decomposed) THEN decomposed ELSE structured

\* if wrapper_color is None and c_color: wrapper_color = c_color
StructuredFirst(structured, decomposed) ==
    IF structured = Absent /\ StrTruthy(decomposed) THEN decomposed ELSE structured

\* scrape_product_details: <<wrapper_color, wrapper_leaf, wrapper_origin>>
wrapper_fields(wrapper_color, wrapper_leaf, wrapper_origin, wrapper_combined) ==
    LET c == smart_parse_wrapper(wrapper_combined.val) IN
    IF StrTruthy(wrapper_combined)
    THEN <<StructuredFirst(wrapper_color, c[1]),
           StructuredFirst(wrapper_leaf, c[2]),
           StructuredFirst(wrapper_origin, c[3])>>
    ELSE <<wrapper_color, wrapper_leaf, wrapper_origin>>

\* get_spec(label): the stripped text of the cell, None when there is no cell or no text
get_spec(cell_text) == safe_str(cell_text)

\* what the attribute table holds for the three structured labels
TableColors == {Absent, Str(<<"N", "a", "t", "u", "r", "a", "l">>)}
TableLeaves == {Absent, Str(<<"S", "u", "m", "a", "t", "r", "a">>)}
TableOrigins == {Absent, Str(<<"E", "c", "u", "a", "d", "o", "r">>)}

\* the combined 'Wrapper' cell: none, or a leaf, a color and an origin in some spelling
TableWrappers ==
    {g \in WrapperInputs :
        /\ g.leaf \in {<<>>, <<"H", "a", "b", "a", "n", "o">>}
        /\ g.color \in {<<>>, <<"M", "a", "d", "u", "r", "o">>,
                         <<"C", "o", "l", "o", "r", "a", "d", "o", " ", "C", "l", "a", "r", "o">>}
        /\ g.origin \in {<<>>, <<"(", "U", "S", "A", ")">>,
                          <<"N", "i", "c", "a", "r", "a", "g", "u", "a">>}}

InitDetails ==
    /\ src = "none"
    /\ pc = "parse"
    /\ TravIdle
    /\ fn = "none"
    /\ out = <<Absent, Absent, Absent>>
    /\ \E g \in TableWrappers, color \in TableColors, leaf \in TableLeaves,
          origin \in TableOrigins :
         /\ given = [form |-> "specs", table |-> <<color, leaf, origin>>, wrapper |-> g]
         /\ text = WrapperText(g)

CallWrapperFields ==
    Apply("famous.wrapper_fields",
          wrapper_fields(given.table[1], given.table[2], given.table[3], get_spec(text)))

NextDetails == CallWrapperFields

SpecDetails == InitDetails /\ [][NextDetails]_vars

---------------------------------------------------------------------------
(* The paging loops against a site with finitely many listing pages.  The    *)
(* site is fixed at the start: how many listing pages it has, where the      *)
(* next-page link of each page points, and what it answers to a request past *)
(* its last page.  `listed` is the sequence of listing pages requested, and  *)
(* one step is one pass of the while loop: the fetch, the item loop (whose   *)
(* failures are caught inside it) and the move to the next page.             *)

MaxSitePages == 2
MaxRequests == 4

\* the scripts whose paging loop is followed here
PagingSources == {"famous", "cigarbid", "atlantic", "jrcigars"}

Sites ==
    UNION {[form : {"site"}, pages : {n}, link : [1..n -> 0..n],
            past : {"empty", "repeat"}, lastFull : BOOLEAN] : n \in 1..MaxSitePages}

InitPaging ==
    /\ src \in PagingSources
    /\ pc = "listing"
    /\ TravIdle
    /\ text = <<>> /\ fn = "none" /\ out = <<None, None>>
    /\ given \in Sites

\* the listing served for page number k: the number of its items
ItemsServed(site, k) ==
    IF k < site.pages THEN page_size
    ELSE IF k = site.pages \/ site.past = "repeat"
    THEN (IF site.lastFull THEN page_size ELSE 1)
    ELSE 0

\* while page_url: scrape_listing_page(page_url); ...; page_url = next_page_url
FollowNextLink ==
    /\ PagesByNextLink(src)
    /\ pc = "listing"
    /\ fetches < MaxRequests
    /\ fetches' = fetches + 1
    /\ listed' = Append(listed, page)
    /\ IF given.link[page] = 0
       THEN pc' = "ended" /\ page' = page
       ELSE pc' = "listing" /\ page' = given.link[page]
    /\ UNCHANGED <<src, cat, cards, idx, nextLink, rec, emitted, stored, log, detailFailed,
                   sinkFailed, inflight, total_inserted, grand_total, finished, faults, exc>>
    /\ UNCHANGED parseVars

\* while True: fetch page `page`; break when it has no product cards; page += 1
FetchNumberedPage ==
    /\ PagesByNumber(src)
    /\ pc = "listing"
    /\ fetches < MaxRequests
    /\ fetches' = fetches + 1
    /\ listed' = Append(listed, page)
    /\ IF ItemsServed(given, page) = 0
       THEN pc' = "ended" /\ page' = page
       ELSE pc' = "listing" /\ page' = page + 1
    /\ UNCHANGED <<src, cat, cards, idx, nextLink, rec, emitted, stored, log, detailFailed,
                   sinkFailed, inflight, total_inserted, grand_total, finished, faults, exc>>
    /\ UNCHANGED parseVars

\* while True: fetch the listing at `start`; break when it is empty or shorter than
\* page_size; start += page_size
CollectPage ==
    /\ CollectsFirst(src)
    /\ pc = "listing"
    /\ fetches < MaxRequests
    /\ fetches' = fetches + 1
    /\ listed' = Append(listed, page)
    /\ IF ItemsServed(given, page) < page_size
       THEN pc' = "ended" /\ page' = page
       ELSE pc' = "listing" /\ page' = page + 1
    /\ UNCHANGED <<src, cat, cards, idx, nextLink, rec, emitted, stored, log, detailFailed,
                   sinkFailed, inflight, total_inserted, grand_total, finished, faults, exc>>
    /\ UNCHANGED parseVars

NextPaging ==
    \/ FollowNextLink
    \/ FetchNumberedPage
    \/ CollectPage

SpecPaging == InitPaging /\ [][NextPaging]_vars

---------------------------------------------------------------------------
(* cigar_data_sheets: the CSV file each sheet of the workbook is written to  *)

\* re.sub(r'\s+', '_', name): every run of blanks becomes one underscore
RECURSIVE UnderscoreBlanks(_)
UnderscoreBlanks(name) ==
    IF name = <<>> THEN <<>>
    ELSE IF Head(name) = " "
    THEN <<"_">> \o UnderscoreBlanks(LStripChars(name, {" "}))
    ELSE <<Head(name)>> \o UnderscoreBlanks(Tail(name))

\* [a-z0-9_]
FileNameChars == {LowerCase[k] : k \in DOMAIN LowerCase} \cup Digits \cup {"_"}

\* cigar_data_sheets.normalize
normalize(name) ==
    SelectSeq(UnderscoreBlanks(LowerAll(name)), LAMBDA c : c \in FileNameChars)

\* csv_name = normalize(sheet_name) + ".csv"
csv_name(sheet_name) == normalize(sheet_name) \o <<".", "c", "s", "v">>

\* names of sheets of one workbook
SheetNames ==
    {<<"P", "r", "i", "c", "e", "s">>,
     <<"S", "h", "e", "e", "t", " ", "1">>,
     <<"S", "h", "e", "e", "t", "_", "1">>,
     <<"S", "h", "e", "e", "t", " ", " ", "1">>,
     <<"S", "h", "e", "e", "t", "1">>,
     <<"A", "&", "B">>,
     <<"A", "B">>,
     <<"!", "!", "!">>,
     <<"D", "a", "t", "a", " ", "(", "2", ")">>,
     <<"D", "a", "t", "a", " ", "2">>,
     <<"$">>}

\* a workbook holds no two sheets whose names differ only in case
Workbooks ==
    {w \in [form : {"sheets"}, first : SheetNames, second : SheetNames] :
        LowerAll(w.first) # LowerAll(w.second)}

InitSheets ==
    /\ src = "none"
    /\ pc = "parse"
    /\ TravIdle
    /\ fn = "none"
    /\ text = <<>>
    /\ out = <<Absent, Absent>>
    /\ given \in Workbooks

\* for sheet_name, df in sheets.items(): df.to_csv(csv_path)
ExportSheets ==
    Apply("sheets.export", <<Str(csv_name(given.first)), Str(csv_name(given.second))>>)

NextSheets == ExportSheets

SpecSheets == InitSheets /\ [][NextSheets]_vars

---------------------------------------------------------------------------
(* Derived views of the histories *)

\* ids of the records passed to the sink, in order
EmittedIds == [k \in 1..Len(emitted) |-> emitted[k].id]

Range(f) == {f[k] : k \in DOMAIN f}

NoDuplicates(f) == \A i, j \in DOMAIN f : f[i] = f[j] => i = j

\* the ids of the items of the first k listing pages of this traversal, in listing order
RECURSIVE ItemsOfPages(_)
ItemsOfPages(k) ==
    IF k = 0 THEN <<>>
    ELSE ItemsOfPages(k - 1) \o [i \in 1..listed[k].n |-> <<k, i>>]

\* number of log lines of one failure category
LogCount(kind) == Cardinality({k \in DOMAIN log : log[k].kind = kind})

\* nothing went wrong for any item of this traversal
CleanItems ==
    /\ detailFailed = {}
    /\ \A k \in DOMAIN listed : listed[k].missing = {}

---------------------------------------------------------------------------
(* Claims about the traversal (specification Spec) *)

\* C1: when a traversal has ended and the detail fetch of exactly one of its N listed
\* items failed (nothing else went wrong), N-1 records were passed to the sink, none
\* of them for the failed item, and exactly one detail-fetch failure was logged.
C1_PartialFailureSkipsItem ==
    (pc = "ended" /\ Cardinality(detailFailed) = 1 /\ faults = 1)
        => /\ Len(emitted) = Len(ItemsOfPages(Len(listed))) - 1
           /\ Range(EmittedIds) \cap detailFailed = {}
           /\ LogCount("detail") = 1

C3_StopsAtFirstEmptyListing ==
    \A k \in DOMAIN listed : listed[k].n = 0 => k = Len(listed)

\* C4: no failure leaves the traversal loop as an unhandled exception.
C4_NoUnhandledFailure == pc # "crashed" /\ exc = "none"

\* C5: when a runner over STRENGTH_URLS has stopped, every category's traversal has
\* been carried out, also when a listing fetch failed in one of them.
C5_OtherTraversalsCompleted ==
    (MultiCategory(src) /\ pc \in {"done", "crashed"}) => Len(finished) = NumCats

\* C6: a failed insert is logged, is never followed by a second insert of the same
\* record (the record is passed to the sink once and is not among the stored ones),
\* does not end the script, and the loop goes on with the next item (or, after the
\* last item of the page, with the next page or the end of the loop).
C6_SinkFailureLoggedNotRetried ==
    /\ [](/\ exc # "sink"
          /\ \A id \in sinkFailed :
                /\ \E k \in DOMAIN log : log[k] = LogLine("sink", id)
                /\ id \notin Range(stored)
                /\ Cardinality({k \in DOMAIN emitted : emitted[k].id = id}) = 1)
    /\ [][sinkFailed' # sinkFailed =>
            \/ idx < Len(cards) /\ idx' = idx + 1 /\ pc' = "item"
            \/ idx = Len(cards) /\ pc' \in {"listing", "ended"}]_vars

C6_Witness ==
    /\ pc = "ended"
    /\ Len(emitted) >= 2
    /\ emitted[1].id \in sinkFailed
    /\ emitted[2].id \in Range(stored)

\* C7: at most one item is in progress at any time: while the detail fetch or the
\* insert of an item is under way that item is the only one in progress, and every
\* earlier item of the loop has been emitted or skipped.
C7_OneItemAtATime ==
    /\ Cardinality(inflight) <= 1
    /\ pc \in {"detail", "save"} => inflight = {cards[idx].id}
    /\ pc \notin {"detail", "save"} => inflight = {}

C7_Witness ==
    /\ pc = "detail"
    /\ idx > 1
    /\ cards[idx - 1].id \in Range(EmittedIds)
    /\ inflight = {cards[idx].id}


---------------------------------------------------------------------------
(* The size parsers (SpecParse).                                             *)

\* the result of the named parser on a text
ResultOf(name, t) ==
    CASE name = "famous.parse_size" -> famous_parse_size(t)
      [] name = "atlantic.parse_size" -> atlantic_parse_size(t)
      [] name = "cigarbid.parse_dimensions" -> parse_dimensions(t)
      [] name = "cigars_daily.parse_size_from_name" -> parse_size_from_name(t)

\* the same input with the separator spelled with another letter
Respelled(g, letter) ==
    [g EXCEPT !.sep = [k \in DOMAIN g.sep |-> IF g.sep[k] = " " THEN " " ELSE letter]]

\* a text of the form 'L x R' or 'L n/d x R': integer L and R, one of the seven fractions
PlainSize ==
    /\ given.form = "size" /\ given.wrap = "bare"
    /\ AllDigits(given.whole) /\ given.frac \in KnownFractions \cup {NoFraction}
    /\ Letter(given.sep) = "x"

\* C8: on a text 'L x R' with integer L, an optional fraction among 1/8, 1/4, 3/8, 1/2,
\* 5/8, 3/4, 7/8 and integer R, parse_size returns exactly the pair (L plus the decimal
\* value of the fraction, R): '5 1/8 x 52' gives (5.125, 52) and '6x54' gives (6.0, 54).
C8_FractionsDecodedExactly ==
    (fn \in {"famous.parse_size", "atlantic.parse_size"} /\ PlainSize)
        => out = <<Num(IntOf(given.whole).val + FractionValue(given.frac)),
                   IntOf(given.ring)>>

\* C9: a size parser returns a length and a ring gauge together or neither of them;
\* it never returns a number on one side and nothing on the other.
C9_BothOrNeither ==
    fn \in {"famous.parse_size", "cigarbid.parse_dimensions"}
        => (out[1] = None <=> out[2] = None)

\* C10: for the same length and ring gauge a size parser returns the same pair whether
\* the separator is written 'x', 'X' or with the multiplication sign.
C10_SeparatorSpellingsEquivalent ==
    (/\ fn \in {"atlantic.parse_size", "cigars_daily.parse_size_from_name",
                "famous.parse_size"}
     /\ given.form = "size")
        => \A letter \in {"x", "X", Times} :
              out = ResultOf(fn, TextOf(Respelled(given, letter)))


---------------------------------------------------------------------------
(* The price parsers (SpecPrice).                                            *)

\* the first number of the text that is written with exactly two decimals
FirstWithCents(g) ==
    IF g.lead.cents THEN Num(g.lead.val)
    ELSE IF g.first.cents THEN Num(g.first.val)
    ELSE IF g.second.cents THEN Num(g.second.val)
    ELSE None

\* C11: for a price text that contains a number written with exactly two decimals the
\* price parser returns the first such number as the primary price ('$8.53' gives 8.53,
\* '$8.53 - $10.89' gives 8.53, a preceding number without two decimals is not
\* returned); a text without such a number gives no price.
C11_FirstTwoDecimalPrice ==
    fn # "none" =>
        out[1] = (IF given.form = "price" THEN FirstWithCents(given) ELSE None)


---------------------------------------------------------------------------
(* The wrapper decomposer (SpecWrapper).                                     *)

\* the entries of a vocabulary that occur in the lower-cased text
EntriesIn(vocab, t) == {vocab[k] : k \in {j \in DOMAIN vocab : IsSubstring(vocab[j], LowerAll(t))}}

\* e is an entry that occurs in the text and no longer entry occurs in it
LongestIn(e, vocab, t) ==
    e \in EntriesIn(vocab, t) /\ \A l \in EntriesIn(vocab, t) : Len(l) <= Len(e)

\* C12: smart_parse_wrapper tries the entries of each vocabulary longest first and takes
\* the first hit: when the text contains a longer entry and a shorter entry that is a
\* substring of it ('Colorado Maduro' and 'Maduro', 'Dominican Republic' and 'Dominican')
\* the color / origin returned is that of the longer entry, and one color and one origin
\* at most are returned.
C12_LongestEntryWins ==
    fn = "famous.smart_parse_wrapper" =>
        /\ IF EntriesIn(WRAPPER_COLORS, text) = {} THEN out[1] = Absent
           ELSE \E e \in EntriesIn(WRAPPER_COLORS, text) :
                   LongestIn(e, WRAPPER_COLORS, text) /\ out[1] = Str(Title(e))
        /\ IF EntriesIn(WRAPPER_ORIGINS, text) = {} THEN out[3] = Absent
           ELSE \E e \in EntriesIn(WRAPPER_ORIGINS, text) :
                   LongestIn(e, WRAPPER_ORIGINS, text) /\ out[3] = Str(OriginName(e))

C12_Witness ==
    /\ fn = "famous.smart_parse_wrapper"
    /\ {<<"m", "a", "d", "u", "r", "o">>,
        <<"c", "o", "l", "o", "r", "a", "d", "o", " ", "m", "a", "d", "u", "r", "o">>}
           \subseteq EntriesIn(WRAPPER_COLORS, text)
    /\ out[1] = Str(<<"C", "o", "l", "o", "r", "a", "d", "o", " ", "M", "a", "d", "u", "r", "o">>)
    /\ <<"d", "o", "m", "i", "n", "i", "c", "a", "n">> \in EntriesIn(WRAPPER_ORIGINS, text)
    /\ out[3] # Absent

\* C13: when a color and/or an origin was matched (in any case), the leaf returned by
\* smart_parse_wrapper is the text with the matched color and origin removed and stray
\* punctuation trimmed, so the leaf contains neither; nothing left gives an absent leaf;
\* 'Connecticut Broadleaf Maduro (USA)' gives color 'Maduro', leaf 'Connecticut
\* Broadleaf', origin 'USA'.
C13_LeafIsTheRemainder ==
    fn = "famous.smart_parse_wrapper" =>
        /\ out[2] = (IF given.leaf = <<>> THEN Absent ELSE Str(given.leaf))
        /\ \A e \in EntriesIn(WRAPPER_COLORS, text) \cup EntriesIn(WRAPPER_ORIGINS, text) :
              out[2] # Absent => ~IsSubstring(e, LowerAll(out[2].val))


---------------------------------------------------------------------------
(* Packaging quantities (SpecQty).                                           *)

\* the label names the package word, in any case
Names(word) == IsSubstring(word, LowerAll(text))

\* the one number of the label, when it has one
LabelNumber == IF given.shape = "bare" THEN None ELSE IntOf(given.n)

\* C14: the single quantity number of a packaging label goes to bundle_quantity only if
\* the label contains 'bundle', to box_quantity only if it contains 'box', and to neither
\* otherwise: 'Box of 20' gives box 20 and no bundle quantity, 'Bundle of 10' gives
\* bundle 10 and no box quantity, 'Pack of 5' gives neither.
C14_QuantityRoutedByLabel ==
    (fn # "none" /\ given.form = "label" /\ given.shape \in {"of", "bare"})
        => out = <<IF Names(<<"b", "u", "n", "d", "l", "e">>) THEN LabelNumber ELSE None,
                   IF Names(<<"b", "o", "x">>) THEN LabelNumber ELSE None>>


---------------------------------------------------------------------------
(* Reconciliation (SpecReconcile).                                           *)

\* C15: the reconciled value of a field is the first candidate that is present; a later
\* candidate is used only when every earlier one is absent, and a present earlier
\* candidate, a parsed 0 included, is never replaced by a later one.
C15_FirstPresentCandidate ==
    fn # "none" =>
        out[1] = (IF given.detail # None THEN given.detail ELSE given.listing)

---------------------------------------------------------------------------
(* Coercion of raw values *)

\* the helpers that make a number of a raw value
NumericHelpers ==
    {"famous.safe_decimal", "famous.safe_int", "cigarbid.safe_decimal", "cigarbid.safe_int",
     "aficionado.safe_decimal", "cigarsdirect.safe_float", "jrcigars.safe_float"}

\* the places where a numeric field of the record is made of a page text
NumericFields ==
    {"aficionado.price", "cigarbid.starting_bid", "holts.parse_review_count",
     "atlantic.review_count", "gotham.review_count"}

ValidNumber(r) == r.kind = "num" /\ r.val >= 0

\* C16: whatever raw text a numeric helper or field extractor is given, the
\* number it puts in the record is absent or a non-negative finite number,
\* never NaN, an infinity or a negative number.
C16_NumericFieldsValid ==
    (fn \in NumericHelpers \cup NumericFields /\ given.value.type \in {"none", "str"})
        => (out[1] = None \/ ValidNumber(out[1]))

SeparatedAmounts ==
    {<<"1", ",", "2", "3", "4", ".", "5", "0">>,
     <<"$", "1", ",", "2", "3", "4", ".", "5", "0">>,
     <<"P", "r", "i", "c", "e", ":", " ", "$", "1", ",", "2", "3", "4", ".", "5", "0">>}

\* C18: the decimal coercion reads an amount written with a thousands
\* separator, with or without a currency symbol around it, as 1234.50.
C18_SeparatorsAndCurrencyAccepted ==
    (/\ fn \in {"cigarsdirect.safe_float", "aficionado.safe_decimal", "aficionado.price",
                "cigarbid.starting_bid", "cigarbid.safe_decimal"}
     /\ text \in SeparatedAmounts)
        => out[1] = Num(1234500)

\* the texts that hold no number
NonNumericTexts ==
    {<<>>, <<" ">>, <<"a", "b", "c">>, <<"N", "/", "A">>, <<"P", "r", "i", "c", "e", ":">>,
     <<"P", "r", "i", "c", "e", ":", " ", "N", "/", "A">>,
     <<"B", "e", " ", "t", "h", "e", " ", "f", "i", "r", "s", "t", " ", "t", "o", " ",
       "r", "e", "v", "i", "e", "w">>}

\* C19: a numeric field whose source text is missing, empty, whitespace-only
\* or holds no number is absent in the record, never zero.
C19_MissingIsAbsentNotZero ==
    (/\ fn \in NumericHelpers \cup NumericFields
     /\ \/ given.value = PyNone
        \/ given.value.type = "str" /\ text \in NonNumericTexts)
        => out[1] = None

---------------------------------------------------------------------------
(* Notes *)

Present(part) == part # Absent /\ part.val # <<>>

\* the notes made of a listing summary and a detail-page description
NotesOf(summary, description) ==
    IF Present(summary) /\ Present(description)
    THEN Str(summary.val \o <<Newline, Newline>> \o description.val)
    ELSE IF Present(summary) THEN summary
    ELSE IF Present(description) THEN description
    ELSE Absent

\* C20: notes is the listing summary, one blank line, the detail-page
\* description; one part alone when only one is present; absent when
\* neither is present.
C20_NotesAreSummaryThenDescription ==
    fn # "none" => out[1] = NotesOf(given.summary, given.description)

---------------------------------------------------------------------------
(* Records and the sink *)

\* C21: every record passed to the sink carries a url (and the name of its
\* source): an item whose url could not be determined is never emitted or
\* stored.
C21_EmittedRecordsHaveUrl ==
    /\ src \in Sources
    /\ \A k \in DOMAIN emitted : emitted[k].url

\* the urls of the records passed to the sink, in order
EmittedUrls == [k \in 1..Len(emitted) |-> emitted[k].url]

\* C22: within one traversal no two records passed to the sink have the same
\* url.
C22_UrlsUniquePerScrape == NoDuplicates(EmittedUrls)

\* C23: passing a record to the sink leaves every field of the record with
\* the value it had when the record was built.
C23_RecordUnchangedBySink ==
    fn = "famous.save_record_to_sql" => out[2] = out[1]

---------------------------------------------------------------------------
(* Lengths with a fraction *)

\* C24: the length parse_specs_table takes from a size text is the whole
\* number plus the decimal value of the fraction, a missing or unrecognised
\* fraction counting as 0.
C24_LengthIsWholePlusFraction ==
    (fn = "gotham.parse_specs_table" /\ AllDigits(given.whole))
        => out[1] = Num(1000 * DigitsVal(given.whole) + FractionValue(given.frac))

---------------------------------------------------------------------------
(* Structured wrapper attributes before the decomposed ones *)

\* what smart_parse_wrapper makes of the combined text of the state
Decomposed == IF text = <<>> THEN <<Absent, Absent, Absent>> ELSE smart_parse_wrapper(text)

\* C25: for each of wrapper color, leaf and origin a present structured value
\* is the field's value, and the field differs from the structured value only
\* when that is absent and then holds the decomposed value.
C25_StructuredTakesPrecedence ==
    fn = "famous.wrapper_fields" =>
        \A i \in 1..3 :
            /\ given.table[i] # Absent => out[i] = given.table[i]
            /\ given.table[i] = Absent => out[i] = Decomposed[i]

C25_Witness ==
    /\ fn = "famous.wrapper_fields"
    /\ given.table[1] # Absent /\ Decomposed[1] \notin {Absent, given.table[1]}
    /\ out[1] = given.table[1]
    /\ given.table[3] = Absent /\ Decomposed[3] # Absent
    /\ out[3] = Decomposed[3]

---------------------------------------------------------------------------
(* Field failures and the reported count (specification Spec) *)

\* C26: a field of a listing card that cannot be derived from its text never
\* ends the traversal: no exception of a field parser leaves the script, so
\* the other items of the page and the following pages are still traversed.
C26_FieldFailureStaysLocal == exc # "parse"

\* C27: when a traversal that counts its inserts has ended, the count it
\* reports is the number of records the sink stored.
C27_ReportedCountIsStoredCount ==
    (CountsInserted(src) /\ pc \in {"ended", "done"}) => total_inserted = Len(stored)

---------------------------------------------------------------------------
(* One quantity, one field *)

\* C28: whatever the packaging label, scrape_product_details sets at most one
\* of bundle_qty and box_qty.
C28_AtMostOneQuantityField ==
    fn = "famous.quantities" => (out[1] = None \/ out[2] = None)

---------------------------------------------------------------------------
(* Paging over a finite site (SpecPaging) *)

\* C29: on a site with finitely many listing pages no listing page is
\* requested twice, and the loop makes at most one request more than the
\* site has pages (the one that finds the end): it does not go on fetching
\* when a link leads back to a visited page or when the site keeps serving
\* items past its last page.
C29_EachListingPageFetchedOnce ==
    /\ NoDuplicates(listed)
    /\ Len(listed) <= given.pages + 1

---------------------------------------------------------------------------
(* Sheet export (SpecSheets) *)

\* C30: two sheets with different names are written to two different CSV
\* files, each with a non-empty name before the extension.
C30_SheetsGetDistinctFiles ==
    fn = "sheets.export" =>
        /\ out[1] # out[2]
        /\ normalize(given.first) # <<>> /\ normalize(given.second) # <<>>

=============================================================================
